---- MODULE Spec2Model ----
(***************************************************************************)
(* The recurrence subsystem of budgetapp's backend store: the ledger, the  *)
(* recurring patterns, the sweep that generates due entries, and the       *)
(* backing file.                                                           *)
(*                                                                         *)
(* A calendar date is the integer y*10000 + m*100 + d, so that date order  *)
(* is integer order.  The store normalises every pattern date with         *)
(* startOfDay, every end date with endOfDay and every generated entry with *)
(* atNoonUTC, and compares an entry with an occurrence by startOfDay; all  *)
(* the comparisons the store makes are therefore comparisons of calendar   *)
(* days, and a time is modelled by its UTC calendar day.  NoDate is Go's   *)
(* zero time (or a nil *time.Time).                                        *)
(*                                                                         *)
(* The bookkeeping timestamps created_at and updated_at, which no          *)
(* operation of the store reads back, are not part of the model.  An       *)
(* expense id (newID: 12 random bytes) is a fresh number, a pattern id any  *)
(* number no pattern of the store carries yet.                             *)
(*                                                                         *)
(* The disk is the data file (file), the temporary file persistLocked      *)
(* writes beside it (tmpFile), and what the next write to it will meet      *)
(* (disk): success, an error of os.WriteFile or of os.Rename, or the death  *)
(* of the process inside the write or before the rename.  running says      *)
(* whether the process lives; its memory is meaningless while it does not.  *)
(*                                                                         *)
(* mu is the store's sync.RWMutex (the goroutine that holds it exclusively, *)
(* and those that hold it shared), calls the place each goroutine has       *)
(* reached in the call it is making.  A handler that runs with no other     *)
(* call in flight takes the lock free and leaves it free, and is one step.  *)
(***************************************************************************)
EXTENDS Integers, Sequences, FiniteSets, TLC

VARIABLES expenses, recurringPatterns, file, nextExpenseId, tmpFile, disk, running,
          mu, calls

vars == <<expenses, recurringPatterns, file, nextExpenseId, tmpFile, disk, running,
          mu, calls>>

----------------------------------------------------------------------------
(* Bounds of the model *)

MaxPatterns == 1

\* patterns in the specification of pattern creation, sweeps and restarts alone
MaxSweepPatterns == 2

MaxExpenses == 3

MaxExpenseId == 3

\* entries in the specification of pattern creation, sweeps and restarts alone
MaxSweepExpenses == 6

\* entries in the specification of the store on a disk that can fail
MaxPersistExpenses == 2

NoDate == 0

NoPattern == 0

\* the values "now" (nowFn, or the now handed to a sweep) is drawn from
NowSet == {20240131, 20240214, 20240331}

StartDates == {20240131, 20240207}

EndDates == {NoDate, 20240214}

Frequencies == {"weekly", "Monthly "}

PatternAmounts == {10}

ExpenseAmounts == {10}

CreateDates == {NoDate, 20240207}

\* nowFn() when Store.Create runs
CreateNows == {20240131}

UpdateDates == {NoDate, 20240207}

ExpenseCategories == {"Food "}

\* the days argument of UpcomingRecurring
HorizonDays == {0, 7, 14}

\* the ids newID can hand to a pattern
PatternIds == 1..MaxPatterns

SweepPatternIds == 1..MaxSweepPatterns

----------------------------------------------------------------------------
(* Calendar arithmetic *)

MkDate(y, m, d) == y * 10000 + m * 100 + d

YearOf(t) == t \div 10000

MonthOf(t) == (t \div 100) % 100

DayOf(t) == t % 100

IsLeap(y) == (y % 4 = 0 /\ y % 100 # 0) \/ y % 400 = 0

\* time.Date(year, month+1, 0, ...).Day(): the last day of the month
daysInMonth(year, month) ==
    IF month = 2 THEN (IF IsLeap(year) THEN 29 ELSE 28)
    ELSE IF month \in {4, 6, 9, 11} THEN 30
    ELSE 31

\* an advance of one day where the weekly cadence has seven
AddWeekByDays(t) ==
    IF DayOf(t) < daysInMonth(YearOf(t), MonthOf(t)) THEN t + 1
    ELSE IF MonthOf(t) = 12 THEN MkDate(YearOf(t) + 1, 1, 1)
    ELSE MkDate(YearOf(t), MonthOf(t) + 1, 1)

\* t.AddDate(0, 0, 7): seven days later, normalised across month and year ends
AddWeek(t) ==
    LET y == YearOf(t)
        m == MonthOf(t)
        d == DayOf(t) + 7
        dim == daysInMonth(y, m)
    IN  IF d <= dim THEN MkDate(y, m, d)
        ELSE IF m = 12 THEN MkDate(y + 1, 1, d - dim)
        ELSE MkDate(y, m + 1, d - dim)

\* strings.ToLower(strings.TrimSpace(s)) on the strings of the model
LowerTrim(s) ==
    CASE s = "Monthly " -> "monthly"
      [] s = "Food " -> "food"
      [] s = "daily" -> "daily"
      [] s = " rent " -> "rent"
      [] OTHER -> s

normalizeStoreCategory(category) ==
    LET cat == LowerTrim(category)
    IN  IF cat = "" THEN "other" ELSE cat

normalizeFrequency(frequency) ==
    LET f == LowerTrim(frequency)
    IN  IF f = "weekly" THEN "weekly"
        ELSE IF f = "monthly" THEN "monthly"
        ELSE ""

\* an advance that takes the day of the month from the cursor it is handed and
\* not from the preferred day
advanceFromCursorDay(frequency, preferredDay, current) ==
    LET f == normalizeFrequency(frequency)
    IN  IF f = "weekly" THEN [err |-> FALSE, date |-> AddWeek(current)]
        ELSE IF f = "monthly" THEN
            LET nextMonth == IF MonthOf(current) + 1 > 12 THEN 1 ELSE MonthOf(current) + 1
                nextYear == IF MonthOf(current) + 1 > 12 THEN YearOf(current) + 1 ELSE YearOf(current)
                lastDay == daysInMonth(nextYear, nextMonth)
                day == IF DayOf(current) > lastDay THEN lastDay ELSE DayOf(current)
            IN  [err |-> FALSE, date |-> MkDate(nextYear, nextMonth, day)]
        ELSE [err |-> TRUE, date |-> NoDate]

\* an advance that falls back on the weekly cadence for a frequency it does
\* not know
advanceWeeklyByDefault(frequency, preferredDay, current) ==
    LET f == normalizeFrequency(frequency)
    IN  IF f = "monthly" THEN
            LET nextMonth == IF MonthOf(current) + 1 > 12 THEN 1 ELSE MonthOf(current) + 1
                nextYear == IF MonthOf(current) + 1 > 12 THEN YearOf(current) + 1 ELSE YearOf(current)
                pref == IF preferredDay < 1 THEN DayOf(current) ELSE preferredDay
                lastDay == daysInMonth(nextYear, nextMonth)
                day == IF pref > lastDay THEN lastDay ELSE pref
            IN  [err |-> FALSE, date |-> MkDate(nextYear, nextMonth, day)]
        ELSE [err |-> FALSE, date |-> AddWeek(current)]

\* an advance that falls back on the monthly cadence for a frequency it does
\* not know
advanceMonthlyByDefault(frequency, preferredDay, current) ==
    LET f == normalizeFrequency(frequency)
    IN  IF f = "weekly" THEN [err |-> FALSE, date |-> AddWeek(current)]
        ELSE LET nextMonth == IF MonthOf(current) + 1 > 12 THEN 1 ELSE MonthOf(current) + 1
                 nextYear == IF MonthOf(current) + 1 > 12 THEN YearOf(current) + 1 ELSE YearOf(current)
                 pref == IF preferredDay < 1 THEN DayOf(current) ELSE preferredDay
                 lastDay == daysInMonth(nextYear, nextMonth)
                 day == IF pref > lastDay THEN lastDay ELSE pref
             IN  [err |-> FALSE, date |-> MkDate(nextYear, nextMonth, day)]

\* advanceRecurringDate(frequency, preferredDay, current): [err, date]
advanceRecurringDate(frequency, preferredDay, current) ==
    LET f == normalizeFrequency(frequency)
    IN  IF f = "weekly" THEN [err |-> FALSE, date |-> AddWeek(current)]
        ELSE IF f = "monthly" THEN
            LET nextMonth == IF MonthOf(current) + 1 > 12 THEN 1 ELSE MonthOf(current) + 1
                nextYear == IF MonthOf(current) + 1 > 12 THEN YearOf(current) + 1 ELSE YearOf(current)
                pref == IF preferredDay < 1 THEN DayOf(current) ELSE preferredDay
                lastDay == daysInMonth(nextYear, nextMonth)
                day == IF pref > lastDay THEN lastDay ELSE pref
            IN  [err |-> FALSE, date |-> MkDate(nextYear, nextMonth, day)]
        ELSE [err |-> TRUE, date |-> NoDate]

----------------------------------------------------------------------------
(* The store (Store, NewStore, load, persistLocked) *)

Expense(id, amount, category, note, date, patternId) ==
    [id |-> id, amount |-> amount, category |-> category, note |-> note,
     date |-> date, recurring_pattern_id |-> patternId]

\* the version-2 envelope persistLocked marshals
dataEnvelope(exps, pats) ==
    [version |-> 2, expenses |-> exps, recurring_patterns |-> pats]

\* what NewStore writes when the path does not exist: "[]\n", a legacy bare array
EmptyLegacyFile == [version |-> 1, expenses |-> <<>>, recurring_patterns |-> <<>>]

\* a path at which there is no file
NoFile == [version |-> 0, expenses |-> <<>>, recurring_patterns |-> <<>>]

\* a file whose write stopped half way: a prefix of the JSON, which does not parse
HalfWritten == [version |-> -1, expenses |-> <<>>, recurring_patterns |-> <<>>]

\* what a write to the disk can meet
DiskOutcomes == {"ok", "write_error", "rename_error", "crash_in_write", "crash_before_rename"}

\* a persist that writes the data file in place, with no temporary file
writeInPlace(outcome, envelope) ==
    CASE outcome = "ok" -> [file |-> envelope, tmpFile |-> tmpFile]
      [] outcome \in {"write_error", "crash_in_write"} ->
             [file |-> HalfWritten, tmpFile |-> tmpFile]
      [] OTHER -> [file |-> envelope, tmpFile |-> tmpFile]

\* os.WriteFile(tmpPath, ...) then os.Rename(tmpPath, s.filePath): the data
\* file and the temporary file they leave, by what the disk does
writeThenRename(outcome, envelope) ==
    CASE outcome = "ok" -> [file |-> envelope, tmpFile |-> NoFile]
      [] outcome \in {"write_error", "crash_in_write"} ->
             [file |-> file, tmpFile |-> HalfWritten]
      [] OTHER -> [file |-> file, tmpFile |-> envelope]

\* Store.persistLocked, as a step of the handler that calls it: the envelope of
\* the memory goes to the disk; the process dies when the disk says so, and a
\* handler that gets an error back returns it
persistLocked(exps, pats) ==
    LET left == writeThenRename(disk, dataEnvelope(exps, pats))
    IN  /\ file' = left.file
        /\ tmpFile' = left.tmpFile
        /\ running' = (disk \notin {"crash_in_write", "crash_before_rename"})
        /\ UNCHANGED disk

\* a load that takes the expenses of the file as they are written
loadedExpenseAsWritten(e) == e

normalizeLoadedExpense(e) ==
    [e EXCEPT !.category = normalizeStoreCategory(e.category)]

normalizeLoadedPattern(p) ==
    LET next == IF p.next_run_date = NoDate THEN p.start_date ELSE p.next_run_date
    IN  [p EXCEPT !.category = normalizeStoreCategory(p.category),
                  !.frequency = normalizeFrequency(p.frequency),
                  !.next_run_date = next]

\* a load that reads the patterns of the file and leaves its expenses behind
loadWithoutLedger(f) ==
    [expenses |-> <<>>,
     recurringPatterns |-> IF f.version = 1 THEN <<>>
                           ELSE [i \in 1..Len(f.recurring_patterns) |->
                                    normalizeLoadedPattern(f.recurring_patterns[i])]]

\* load: a bare array gives the expenses and no patterns, an envelope gives both
load(f) ==
    IF f.version = 1
    THEN [expenses |-> [i \in 1..Len(f.expenses) |-> normalizeLoadedExpense(f.expenses[i])],
          recurringPatterns |-> <<>>]
    ELSE [expenses |-> [i \in 1..Len(f.expenses) |-> normalizeLoadedExpense(f.expenses[i])],
          recurringPatterns |-> [i \in 1..Len(f.recurring_patterns) |->
                                    normalizeLoadedPattern(f.recurring_patterns[i])]]

----------------------------------------------------------------------------
(* The sweep (generateDueRecurringLocked, hasOccurrenceLocked) *)

\* a sweep that finds no entry of the pattern on the day of the cursor,
\* whatever the ledger holds
occurrenceNeverFound(exps, patternID, date) == FALSE

hasOccurrenceLocked(exps, patternID, date) ==
    \E i \in 1..Len(exps) :
        /\ exps[i].recurring_pattern_id = patternID
        /\ exps[i].date = date

\* a deactivation that also puts the cursor back on the start date
DeactivatedRewound(p) == [p EXCEPT !.active = FALSE, !.next_run_date = p.start_date]

\* a pattern that reaches the end of its run and keeps its active flag
LeftActive(p) == p

\* pattern.Active = false
Deactivated(p) == [p EXCEPT !.active = FALSE]

\* an engine that rewrites the entry it generated last for the pattern, where
\* there is one, and appends only the first
upsertExpense(exps, expense) ==
    LET mine == {k \in 1..Len(exps) :
                    exps[k].recurring_pattern_id = expense.recurring_pattern_id}
    IN  IF mine = {} THEN Append(exps, expense)
        ELSE LET last == CHOOSE k \in mine : \A j \in mine : j <= k
             IN  [exps EXCEPT ![last] = [expense EXCEPT !.id = exps[last].id]]

\* s.expenses = append(s.expenses, Expense{...})
appendExpense(exps, expense) == Append(exps, expense)

\* one iteration of the inner loop of generateDueRecurringLocked for the pattern
\* at index i; st = [expenses, recurringPatterns, nextId, changed], and the
\* result says whether the iteration left the loop with break
dueIteration(st, i, now) ==
    LET pattern == st.recurringPatterns[i]
        nextRunDay == pattern.next_run_date
    IN  IF pattern.end_date # NoDate /\ nextRunDay > pattern.end_date
        THEN [st |-> [st EXCEPT !.recurringPatterns[i] = Deactivated(pattern),
                                !.changed = TRUE],
              break |-> TRUE]
        ELSE
            LET st1 == IF ~hasOccurrenceLocked(st.expenses, pattern.id, nextRunDay)
                       THEN [st EXCEPT !.expenses = appendExpense(st.expenses,
                                           Expense(st.nextId, pattern.amount, pattern.category,
                                                   pattern.note, nextRunDay, pattern.id)),
                                       !.nextId = st.nextId + 1,
                                       !.changed = TRUE]
                       ELSE st
                adv == advanceRecurringDate(pattern.frequency, DayOf(pattern.start_date), nextRunDay)
            IN  IF adv.err
                THEN [st |-> [st1 EXCEPT !.recurringPatterns[i] = Deactivated(pattern),
                                         !.changed = TRUE],
                      break |-> TRUE]
                ELSE
                    LET moved == [pattern EXCEPT !.next_run_date = adv.date]
                        st2 == [st1 EXCEPT !.recurringPatterns[i] = moved, !.changed = TRUE]
                    IN  IF moved.end_date # NoDate /\ moved.next_run_date > moved.end_date
                        THEN [st |-> [st2 EXCEPT !.recurringPatterns[i] = Deactivated(moved)],
                              break |-> TRUE]
                        ELSE [st |-> st2, break |-> FALSE]

\* a sweep that handles one occurrence per call: "if" where the code has "for"
dueLoopOnce(st, i, now) ==
    IF st.recurringPatterns[i].next_run_date > now THEN st
    ELSE dueIteration(st, i, now).st

\* a loop that stops at an occurrence due on the day of now itself: "before the
\* due limit" where the code has "not after the due limit"
RECURSIVE dueLoopBeforeLimit(_, _, _)
dueLoopBeforeLimit(st, i, now) ==
    IF st.recurringPatterns[i].next_run_date >= now THEN st
    ELSE LET r == dueIteration(st, i, now)
         IN  IF r.break THEN r.st ELSE dueLoopBeforeLimit(r.st, i, now)

\* for !startOfDay(pattern.NextRunDate).After(dueLimit) { ... }
RECURSIVE dueLoop(_, _, _)
dueLoop(st, i, now) ==
    IF st.recurringPatterns[i].next_run_date > now THEN st
    ELSE LET r == dueIteration(st, i, now)
         IN  IF r.break THEN r.st ELSE dueLoop(r.st, i, now)

\* a loop body without "if !pattern.Active { continue }"
duePatternWhateverActive(st, i, now) ==
    LET pattern == st.recurringPatterns[i]
    IN  IF pattern.next_run_date = NoDate
        THEN dueLoop([st EXCEPT !.recurringPatterns[i].next_run_date = pattern.start_date,
                                !.changed = TRUE], i, now)
        ELSE dueLoop(st, i, now)

\* the body of the loop over s.recurringPatterns, for the pattern at index i
duePattern(st, i, now) ==
    LET pattern == st.recurringPatterns[i]
    IN  IF ~pattern.active THEN st
        ELSE IF pattern.next_run_date = NoDate
        THEN dueLoop([st EXCEPT !.recurringPatterns[i].next_run_date = pattern.start_date,
                                !.changed = TRUE], i, now)
        ELSE dueLoop(st, i, now)

RECURSIVE duePatterns(_, _, _)
duePatterns(st, i, now) ==
    IF i > Len(st.recurringPatterns) THEN st
    ELSE duePatterns(duePattern(st, i, now), i + 1, now)

generateDueRecurringLocked(exps, pats, nextId, now) ==
    duePatterns([expenses |-> exps, recurringPatterns |-> pats,
                 nextId |-> nextId, changed |-> FALSE], 1, now)

\* the model's bound on what a handler may leave behind
Bounded(maxExpenses, maxId) ==
    /\ Len(expenses') <= maxExpenses
    /\ nextExpenseId' <= maxId + 1

----------------------------------------------------------------------------
(* The lock (Store.mu, a sync.RWMutex) *)

\* the goroutines that call the store at the same time
Goroutines == {1, 2}

NoGoroutine == 0

\* a mutex nobody holds
Unlocked == [writer |-> NoGoroutine, readers |-> {}]

\* a goroutine that is in no call of the store
Idle == [at |-> "idle", op |-> "", now |-> NoDate, i |-> 0, day |-> NoDate,
         changed |-> FALSE, serial |-> <<>>]

\* a Lock that never waits
lockWithoutWaiting(m) == TRUE

\* s.mu.Lock() goes through: nobody holds the mutex, exclusively or shared
CanLock(m) == m.writer = NoGoroutine /\ m.readers = {}

\* s.mu.RLock() goes through: nobody holds the mutex exclusively
CanRLock(m) == m.writer = NoGoroutine

\* s.mu.Lock(); defer s.mu.Unlock() around a handler no other call overlaps
Alone == UNCHANGED <<mu, calls>>

----------------------------------------------------------------------------
(* Operations of the store *)

Init ==
    /\ expenses = <<>>
    /\ recurringPatterns = <<>>
    /\ file = EmptyLegacyFile
    /\ nextExpenseId = 1
    /\ tmpFile = NoFile
    /\ disk = "ok"
    /\ running = TRUE
    /\ mu = Unlocked
    /\ calls = [g \in Goroutines |-> Idle]

\* Store.Create
Create(amount, category, date, now) ==
    LET expense == Expense(nextExpenseId, amount, normalizeStoreCategory(category), "rent",
                           IF date = NoDate THEN now ELSE date, NoPattern)
    IN  /\ expenses' = Append(expenses, expense)
        /\ nextExpenseId' = nextExpenseId + 1
        /\ Alone
        /\ persistLocked(expenses', recurringPatterns)
        /\ UNCHANGED recurringPatterns

\* Store.Update; an unknown id is ErrNotFound and changes nothing
Update(id, amount, category, date) ==
    IF \E i \in 1..Len(expenses) : expenses[i].id = id
    THEN LET i == CHOOSE j \in 1..Len(expenses) : expenses[j].id = id
             expense == [expenses[i] EXCEPT
                            !.amount = amount,
                            !.category = normalizeStoreCategory(category),
                            !.note = LowerTrim(" rent "),
                            !.date = IF date # NoDate THEN date ELSE @]
         IN  /\ expenses' = [expenses EXCEPT ![i] = expense]
             /\ Alone
             /\ persistLocked(expenses', recurringPatterns)
             /\ UNCHANGED <<recurringPatterns, nextExpenseId>>
    ELSE UNCHANGED vars

\* a delete that drops the last entry of the ledger when it does not find the id
deleteOrDropLast(id) ==
    IF expenses = <<>> THEN UNCHANGED vars
    ELSE LET i == IF \E j \in 1..Len(expenses) : expenses[j].id = id
                  THEN CHOOSE j \in 1..Len(expenses) : expenses[j].id = id
                  ELSE Len(expenses)
         IN  /\ expenses' = [j \in 1..(Len(expenses) - 1) |->
                                IF j < i THEN expenses[j] ELSE expenses[j + 1]]
             /\ Alone
             /\ persistLocked(expenses', recurringPatterns)
             /\ UNCHANGED <<recurringPatterns, nextExpenseId>>

\* Store.Delete; an unknown id is ErrNotFound and changes nothing
Delete(id) ==
    IF \E i \in 1..Len(expenses) : expenses[i].id = id
    THEN LET i == CHOOSE j \in 1..Len(expenses) : expenses[j].id = id
         IN  /\ expenses' = [j \in 1..(Len(expenses) - 1) |->
                                IF j < i THEN expenses[j] ELSE expenses[j + 1]]
             /\ Alone
             /\ persistLocked(expenses', recurringPatterns)
             /\ UNCHANGED <<recurringPatterns, nextExpenseId>>
    ELSE UNCHANGED vars

\* a validation without the comparison of the end date with the start date
validateWithoutEndDate(amount, frequency, startDate, endDate) ==
    \/ amount <= 0
    \/ LowerTrim(frequency) = ""
    \/ normalizeFrequency(frequency) = ""
    \/ startDate = NoDate

\* validateRecurringInput: TRUE when the input is rejected
validateRecurringInput(amount, frequency, startDate, endDate) ==
    \/ amount <= 0
    \/ LowerTrim(frequency) = ""
    \/ normalizeFrequency(frequency) = ""
    \/ startDate = NoDate
    \/ (endDate # NoDate /\ endDate < startDate)

\* newID returns 12 random bytes: an id no pattern carries yet
FreshPatternId(id) ==
    \A i \in 1..Len(recurringPatterns) : recurringPatterns[i].id # id

\* pattern := RecurringPattern{...} of CreateRecurring: the value the function
\* appends to s.recurringPatterns before the sweep and hands back with
\* 'return pattern, nil' after it
createdPattern(id, amount, frequency, startDate, endDate, active) ==
    [id |-> id,
     amount |-> amount,
     category |-> normalizeStoreCategory("Food "),
     note |-> LowerTrim(" rent "),
     frequency |-> normalizeFrequency(frequency),
     start_date |-> startDate,
     next_run_date |-> startDate,
     end_date |-> endDate,
     active |-> active]

\* Store.CreateRecurring: append the pattern, sweep at nowFn(), persist
CreateRecurring(id, amount, frequency, startDate, endDate, active, now) ==
    IF validateRecurringInput(amount, frequency, startDate, endDate)
    THEN UNCHANGED vars
    ELSE LET pattern == createdPattern(id, amount, frequency, startDate, endDate, active)
             st == generateDueRecurringLocked(expenses, Append(recurringPatterns, pattern),
                                              nextExpenseId, now)
         IN  /\ expenses' = st.expenses
             /\ recurringPatterns' = st.recurringPatterns
             /\ nextExpenseId' = st.nextId
             /\ Alone
             /\ persistLocked(expenses', recurringPatterns')

\* an update that takes the active flag from the input whatever the dates
activeFromInput(next, endDate, active) == active

\* UpdateRecurring: pattern.Active = input.Active, then false when the cursor
\* lies after the end date
activeAfterUpdate(next, endDate, active) ==
    IF endDate # NoDate /\ next > endDate THEN FALSE ELSE active

\* an update that puts the cursor back on the start date, as an update that
\* resets next_run_date does
updatedPatternRewound(old, amount, frequency, startDate, endDate, active) ==
    [old EXCEPT
        !.amount = amount,
        !.category = normalizeStoreCategory("Food "),
        !.note = LowerTrim(" rent "),
        !.frequency = normalizeFrequency(frequency),
        !.start_date = startDate,
        !.end_date = endDate,
        !.next_run_date = startDate,
        !.active = activeAfterUpdate(startDate, endDate, active)]

\* the loop variable 'pattern' of UpdateRecurring after its assignments: the
\* value the function stores with s.recurringPatterns[i] = pattern before the
\* sweep and hands back with 'return pattern, nil' after it
updatedPattern(old, amount, frequency, startDate, endDate, active) ==
    LET next == IF old.next_run_date < startDate THEN startDate ELSE old.next_run_date
    IN  [old EXCEPT
            !.amount = amount,
            !.category = normalizeStoreCategory("Food "),
            !.note = LowerTrim(" rent "),
            !.frequency = normalizeFrequency(frequency),
            !.start_date = startDate,
            !.end_date = endDate,
            !.next_run_date = next,
            !.active = activeAfterUpdate(next, endDate, active)]

\* Store.UpdateRecurring: overwrite the pattern's fields, sweep at nowFn(), persist
UpdateRecurring(id, amount, frequency, startDate, endDate, active, now) ==
    IF validateRecurringInput(amount, frequency, startDate, endDate)
    THEN UNCHANGED vars
    ELSE IF \E i \in 1..Len(recurringPatterns) : recurringPatterns[i].id = id
    THEN LET i == CHOOSE j \in 1..Len(recurringPatterns) : recurringPatterns[j].id = id
             pattern == updatedPattern(recurringPatterns[i], amount, frequency, startDate,
                                       endDate, active)
             st == generateDueRecurringLocked(expenses, [recurringPatterns EXCEPT ![i] = pattern],
                                              nextExpenseId, now)
         IN  /\ expenses' = st.expenses
             /\ recurringPatterns' = st.recurringPatterns
             /\ nextExpenseId' = st.nextId
             /\ Alone
             /\ persistLocked(expenses', recurringPatterns')
    ELSE UNCHANGED vars

\* a delete that takes the pattern out of the pattern set
removeRecurring(id) ==
    IF \E i \in 1..Len(recurringPatterns) : recurringPatterns[i].id = id
    THEN LET i == CHOOSE j \in 1..Len(recurringPatterns) : recurringPatterns[j].id = id
         IN  /\ recurringPatterns' = [j \in 1..(Len(recurringPatterns) - 1) |->
                                         IF j < i THEN recurringPatterns[j]
                                         ELSE recurringPatterns[j + 1]]
             /\ Alone
             /\ persistLocked(expenses, recurringPatterns')
             /\ UNCHANGED <<expenses, nextExpenseId>>
    ELSE UNCHANGED vars

\* Store.DeactivateRecurring; an unknown id is ErrNotFound and changes nothing
DeactivateRecurring(id) ==
    IF \E i \in 1..Len(recurringPatterns) : recurringPatterns[i].id = id
    THEN LET i == CHOOSE j \in 1..Len(recurringPatterns) : recurringPatterns[j].id = id
         IN  /\ recurringPatterns' = [recurringPatterns EXCEPT ![i] = Deactivated(@)]
             /\ Alone
             /\ persistLocked(expenses, recurringPatterns')
             /\ UNCHANGED <<expenses, nextExpenseId>>
    ELSE UNCHANGED vars

\* Store.runRecurringSweepAt, which List, ListRecurring, Stats and
\* UpcomingRecurring run before they read: sweep, and persist when it changed
runRecurringSweepAt(now) ==
    LET st == generateDueRecurringLocked(expenses, recurringPatterns, nextExpenseId, now)
    IN  /\ expenses' = st.expenses
        /\ recurringPatterns' = st.recurringPatterns
        /\ nextExpenseId' = st.nextId
        /\ Alone
        /\ IF st.changed THEN persistLocked(expenses', recurringPatterns')
           ELSE UNCHANGED <<file, tmpFile, disk, running>>

\* t.AddDate(0, 0, 1)
AddDay(t) ==
    IF DayOf(t) < daysInMonth(YearOf(t), MonthOf(t)) THEN t + 1
    ELSE IF MonthOf(t) = 12 THEN MkDate(YearOf(t) + 1, 1, 1)
    ELSE MkDate(YearOf(t), MonthOf(t) + 1, 1)

\* t.AddDate(0, 0, days)
RECURSIVE AddDays(_, _)
AddDays(t, days) == IF days = 0 THEN t ELSE AddDays(AddDay(t), days - 1)

\* UpcomingRecurring: days <= 0 is 30, days > 365 is 365
upcomingDays(days) ==
    IF days <= 0 THEN 30 ELSE IF days > 365 THEN 365 ELSE days

UpcomingRecurringOccurrence(pattern, date) ==
    [pattern_id |-> pattern.id, date |-> date, amount |-> pattern.amount,
     category |-> pattern.category, note |-> pattern.note]

\* a walk that takes no end date for passed
neverPastEndDate(pattern, next) == FALSE

\* pattern.EndDate != nil && next.After(*pattern.EndDate)
pastEndDate(pattern, next) ==
    pattern.end_date # NoDate /\ next > pattern.end_date

\* a walk that stops on the end date instead of after it
RECURSIVE upcomingWalkBeforeEndDate(_, _, _, _)
upcomingWalkBeforeEndDate(pattern, next, windowStart, windowEnd) ==
    IF next > windowEnd THEN <<>>
    ELSE IF pattern.end_date # NoDate /\ next >= pattern.end_date THEN <<>>
    ELSE LET found == IF next >= windowStart
                      THEN <<UpcomingRecurringOccurrence(pattern, next)>>
                      ELSE <<>>
             advanced == advanceRecurringDate(pattern.frequency, DayOf(pattern.start_date), next)
         IN  IF advanced.err THEN found
             ELSE found \o upcomingWalkBeforeEndDate(pattern, advanced.date, windowStart, windowEnd)

\* for !next.After(windowEnd) { ... } of UpcomingRecurring, for one pattern:
\* the occurrences it appends to upcoming
RECURSIVE upcomingWalk(_, _, _, _)
upcomingWalk(pattern, next, windowStart, windowEnd) ==
    IF next > windowEnd THEN <<>>
    ELSE IF pastEndDate(pattern, next) THEN <<>>
    ELSE LET found == IF next >= windowStart
                      THEN <<UpcomingRecurringOccurrence(pattern, next)>>
                      ELSE <<>>
             advanced == advanceRecurringDate(pattern.frequency, DayOf(pattern.start_date), next)
         IN  IF advanced.err THEN found
             ELSE found \o upcomingWalk(pattern, advanced.date, windowStart, windowEnd)

\* the loop of UpcomingRecurring over s.recurringPatterns, from index i on
RECURSIVE upcomingCollect(_, _, _, _)
upcomingCollect(pats, i, windowStart, windowEnd) ==
    IF i > Len(pats) THEN <<>>
    ELSE (IF ~pats[i].active THEN <<>>
          ELSE upcomingWalk(pats[i], pats[i].next_run_date, windowStart, windowEnd))
         \o upcomingCollect(pats, i + 1, windowStart, windowEnd)

\* the less function UpcomingRecurring hands to sort.Slice
upcomingLess(a, b) ==
    IF a.date = b.date THEN a.pattern_id < b.pattern_id ELSE a.date < b.date

\* a result left in the order of collection
unsortedUpcoming(list) == list

\* x put in its place in a list that is in order
RECURSIVE upcomingInsert(_, _)
upcomingInsert(sorted, x) ==
    IF sorted = <<>> THEN <<x>>
    ELSE IF upcomingLess(x, Head(sorted)) THEN <<x>> \o sorted
    ELSE <<Head(sorted)>> \o upcomingInsert(Tail(sorted), x)

RECURSIVE upcomingSortFrom(_, _, _)
upcomingSortFrom(list, i, sorted) ==
    IF i > Len(list) THEN sorted
    ELSE upcomingSortFrom(list, i + 1, upcomingInsert(sorted, list[i]))

\* sort.Slice(upcoming, ...): the less function orders any two occurrences of
\* one result, so the sorted slice is the one an insertion sort builds
sortUpcoming(list) == upcomingSortFrom(list, 1, <<>>)

\* what UpcomingRecurring computes under the read lock from the patterns it finds
upcomingLocked(pats, days, now) ==
    sortUpcoming(upcomingCollect(pats, 1, now, AddDays(now, upcomingDays(days))))

\* Store.UpcomingRecurring: sweep at now, then project; the change of state is
\* that of the sweep, the value returned is
\* upcomingLocked(recurringPatterns', days, now)
UpcomingRecurring(days, now) == runRecurringSweepAt(now)

\* ExpenseFilter: a category ("" for none) and the days From and To (NoDate
\* for nil)
ExpenseFilter(category, from, to) == [category |-> category, from |-> from, to |-> to]

\* a filter whose To bound leaves the day of To itself out
matchesBeforeTo(expense, filter) ==
    /\ ~(filter.category # "" /\ expense.category # filter.category)
    /\ ~(filter.from # NoDate /\ expense.date < filter.from)
    /\ ~(filter.to # NoDate /\ expense.date >= filter.to)

\* the three "continue" conditions of the loop of List, none of which holds
matchesFilter(expense, filter) ==
    /\ ~(filter.category # "" /\ expense.category # filter.category)
    /\ ~(filter.from # NoDate /\ expense.date < filter.from)
    /\ ~(filter.to # NoDate /\ expense.date > filter.to)

RECURSIVE listCollect(_, _, _)
\* for _, expense := range s.expenses { ... result = append(result, expense) }
listCollect(exps, i, filter) ==
    IF i > Len(exps) THEN <<>>
    ELSE IF matchesFilter(exps[i], filter)
    THEN <<exps[i]>> \o listCollect(exps, i + 1, filter)
    ELSE listCollect(exps, i + 1, filter)

\* the less function of List: result[i].Date.After(result[j].Date)
listLess(a, b) == a.date > b.date

RECURSIVE listInsert(_, _)
\* sorted, with x put behind the last element that is not less than it
listInsert(sorted, x) ==
    IF sorted = <<>> THEN <<x>>
    ELSE IF listLess(x, sorted[Len(sorted)])
    THEN Append(listInsert(SubSeq(sorted, 1, Len(sorted) - 1), x), sorted[Len(sorted)])
    ELSE Append(sorted, x)

RECURSIVE listSortFrom(_, _, _)
listSortFrom(list, i, sorted) ==
    IF i > Len(list) THEN sorted
    ELSE listSortFrom(list, i + 1, listInsert(sorted, list[i]))

\* sort.Slice(result, ...): on a slice of at most twelve elements the sort of
\* the Go library is an insertion sort
sortByDateDesc(list) == listSortFrom(list, 1, <<>>)

\* what List computes under the read lock from the ledger it finds
listLocked(exps, filter) == sortByDateDesc(listCollect(exps, 1, filter))

\* Store.List: sweep at nowFn(), then filter s.expenses under the read lock;
\* the change of state is that of the sweep, the value returned is
\* listLocked(expenses', filter)
List(now) == runRecurringSweepAt(now)

\* Store.ListRecurring: sweep at nowFn(), then copy s.recurringPatterns
ListRecurring(now) == runRecurringSweepAt(now)

\* Store.Stats: sweep at now, then total s.expenses
Stats(now) == runRecurringSweepAt(now)

\* what Store.Get returns for id: the entry of s.expenses with that id, or
\* ErrNotFound
getLocked(exps, id) ==
    IF \E i \in 1..Len(exps) : exps[i].id = id
    THEN <<exps[CHOOSE i \in 1..Len(exps) : exps[i].id = id]>>
    ELSE <<>>

\* Store.Get: the read lock and a scan of s.expenses, no sweep before it; the
\* value returned is getLocked(expenses, id)
Get(id) == UNCHANGED vars

\* the error persistLocked returns on the disk as it is
persistError == disk \in {"write_error", "rename_error"}

\* the error runRecurringSweepAt(now) returns: that of
\* generateDueRecurringLocked, which is nil on every path, or else that of
\* persistLocked when something changed
sweepError(now) ==
    /\ generateDueRecurringLocked(expenses, recurringPatterns, nextExpenseId, now).changed
    /\ persistError

\* the error a read hands its caller for its sweep at now:
\* "_ = s.runRecurringSweepAt(...)", and the results of List, ListRecurring,
\* Stats and UpcomingRecurring carry no error
readError(now) == FALSE

\* the end of NewStore: the store holds what the sweep left, and a sweep that
\* changed something has persisted it; when that fails NewStore returns the
\* error and no store
startedStore(found, st, left) ==
    /\ Alone
    /\ expenses' = st.expenses
    /\ recurringPatterns' = st.recurringPatterns
    /\ nextExpenseId' = st.nextId
    /\ IF st.changed
       THEN /\ file' = left.file
            /\ tmpFile' = left.tmpFile
            /\ running' = (disk = "ok")
            /\ UNCHANGED disk
       ELSE /\ file' = found
            /\ running' = TRUE
            /\ UNCHANGED <<tmpFile, disk>>

\* the persist of the start-up sweep, of what the sweep left
sweptStore(found, st) ==
    startedStore(found, st,
                 writeThenRename(disk, dataEnvelope(st.expenses, st.recurringPatterns)))

\* the start-up sweep at nowFn(), over what load read
loadedStore(found, loaded, now) ==
    sweptStore(found,
               generateDueRecurringLocked(loaded.expenses, loaded.recurringPatterns,
                                          nextExpenseId, now))

\* NewStore, the start of a process (a restart, when one was running): write
\* "[]\n" where there is no file, load, then sweep at nowFn()
NewStore(now) ==
    IF file = HalfWritten
    THEN \* "parse data file": NewStore returns the error and no store
         /\ running' = FALSE
         /\ UNCHANGED <<expenses, recurringPatterns, file, nextExpenseId, tmpFile, disk>>
         /\ Alone
    ELSE IF file = NoFile
         THEN loadedStore(EmptyLegacyFile, load(EmptyLegacyFile), now)
         ELSE loadedStore(file, load(file), now)

\* inputs validateRecurringInput rejects: amount, frequency, start, end
RejectedRecurringInputs ==
    { <<0, "weekly", 20240131, NoDate>>,
      <<10, "daily", 20240131, NoDate>>,
      <<10, "", 20240131, NoDate>>,
      <<10, "weekly", NoDate, NoDate>>,
      <<10, "weekly", 20240207, 20240131>> }

InBounds == Bounded(MaxExpenses, MaxExpenseId)

Next ==
    \/ \E a \in ExpenseAmounts, c \in ExpenseCategories, d \in CreateDates, now \in CreateNows :
           Create(a, c, d, now) /\ InBounds
    \/ \E id \in 1..MaxExpenseId, a \in ExpenseAmounts, c \in ExpenseCategories, d \in UpdateDates :
           Update(id, a, c, d)
    \/ \E id \in 1..MaxExpenseId : Delete(id)
    \/ \E id \in PatternIds, a \in PatternAmounts, f \in Frequencies, sd \in StartDates,
          ed \in EndDates, act \in BOOLEAN, now \in NowSet :
           /\ Len(recurringPatterns) < MaxPatterns
           /\ FreshPatternId(id)
           /\ CreateRecurring(id, a, f, sd, ed, act, now)
           /\ InBounds
    \/ \E id \in PatternIds, in \in RejectedRecurringInputs, now \in CreateNows :
           CreateRecurring(id, in[1], in[2], in[3], in[4], TRUE, now)
    \/ \E id \in PatternIds, a \in PatternAmounts, f \in Frequencies, sd \in StartDates,
          ed \in EndDates, act \in BOOLEAN, now \in NowSet :
           UpdateRecurring(id, a, f, sd, ed, act, now) /\ InBounds
    \/ \E id \in PatternIds, in \in RejectedRecurringInputs, now \in CreateNows :
           UpdateRecurring(id, in[1], in[2], in[3], in[4], TRUE, now)
    \/ \E id \in PatternIds : DeactivateRecurring(id)
    \/ \E now \in NowSet : runRecurringSweepAt(now) /\ InBounds
    \/ \E days \in HorizonDays, now \in NowSet : UpcomingRecurring(days, now) /\ InBounds
    \/ \E now \in NowSet : List(now) /\ InBounds
    \/ \E id \in 1..MaxExpenseId : Get(id)
    \/ \E now \in NowSet : ListRecurring(now) /\ InBounds
    \/ \E now \in NowSet : Stats(now) /\ InBounds
    \/ \E now \in NowSet : NewStore(now) /\ InBounds

Spec == Init /\ [][Next]_vars

InSweepBounds == Bounded(MaxSweepExpenses, MaxSweepExpenses)

\* pattern creation and deactivation, sweeps, reads and process restarts alone
NextSweep ==
    \/ \E id \in SweepPatternIds, a \in PatternAmounts, f \in Frequencies, sd \in StartDates,
          ed \in EndDates, act \in BOOLEAN, now \in NowSet :
           /\ Len(recurringPatterns) < MaxSweepPatterns
           /\ FreshPatternId(id)
           /\ CreateRecurring(id, a, f, sd, ed, act, now)
           /\ InSweepBounds
    \/ \E id \in SweepPatternIds : DeactivateRecurring(id)
    \/ \E now \in NowSet : runRecurringSweepAt(now) /\ InSweepBounds
    \/ \E days \in HorizonDays, now \in NowSet : UpcomingRecurring(days, now) /\ InSweepBounds
    \/ \E now \in NowSet : List(now) /\ InSweepBounds
    \/ \E id \in 1..MaxSweepExpenses : Get(id)
    \/ \E now \in NowSet : ListRecurring(now) /\ InSweepBounds
    \/ \E now \in NowSet : Stats(now) /\ InSweepBounds
    \/ \E now \in NowSet : NewStore(now) /\ InSweepBounds

SpecSweep == Init /\ [][NextSweep]_vars

\* a data file of the first version: a bare array of expenses, the category
\* as an earlier release wrote it
LegacyFile ==
    [version |-> 1,
     expenses |-> <<Expense(1, 10, "Food ", "rent", 20240131, NoPattern)>>,
     recurring_patterns |-> <<>>]

\* no process yet, and on the disk no data file or a legacy one
InitOnDisk ==
    /\ expenses = <<>>
    /\ recurringPatterns = <<>>
    /\ file \in {NoFile, LegacyFile}
    /\ nextExpenseId = 2
    /\ tmpFile = NoFile
    /\ disk = "ok"
    /\ running = FALSE
    /\ mu = Unlocked
    /\ calls = [g \in Goroutines |-> Idle]

\* the process starts with NewStore, and the store serves once it has
NextOnDisk ==
    \/ ~running /\ \E now \in NowSet : NewStore(now)
    \/ running /\ Next

SpecOnDisk == InitOnDisk /\ [][NextOnDisk]_vars

\* the disk turns: the next write to it succeeds, fails, or kills the process
DiskWill(outcome) ==
    /\ disk' = outcome
    /\ UNCHANGED <<expenses, recurringPatterns, file, nextExpenseId, tmpFile, running>>
    /\ UNCHANGED <<mu, calls>>

InPersistBounds == Bounded(MaxPersistExpenses, MaxPersistExpenses)

\* every mutating operation of the store, each on one input, on a disk that
\* can fail, and the start of a new process when one has died
NextPersist ==
    \/ \E outcome \in DiskOutcomes : DiskWill(outcome)
    \/ ~running /\ \E now \in NowSet : NewStore(now) /\ InPersistBounds
    \/ running /\ \E a \in ExpenseAmounts, c \in ExpenseCategories, now \in CreateNows :
           Create(a, c, NoDate, now) /\ InPersistBounds
    \/ running /\ \E id \in 1..MaxPersistExpenses, a \in ExpenseAmounts, c \in ExpenseCategories :
           Update(id, a, c, 20240207)
    \/ running /\ \E id \in 1..MaxPersistExpenses : Delete(id)
    \/ running /\ \E id \in PatternIds, a \in PatternAmounts, ed \in EndDates, now \in CreateNows :
           /\ Len(recurringPatterns) < MaxPatterns
           /\ FreshPatternId(id)
           /\ CreateRecurring(id, a, "weekly", 20240131, ed, TRUE, now)
           /\ InPersistBounds
    \/ running /\ \E id \in PatternIds, a \in PatternAmounts, now \in CreateNows :
           UpdateRecurring(id, a, "Monthly ", 20240131, NoDate, TRUE, now) /\ InPersistBounds
    \/ running /\ \E id \in PatternIds : DeactivateRecurring(id)
    \/ running /\ \E now \in NowSet : runRecurringSweepAt(now) /\ InPersistBounds
    \/ running /\ \E now \in NowSet : List(now) /\ InPersistBounds

SpecPersist == Init /\ [][NextPersist]_vars

\* entries in the specification of sweeps on a disk that can fail
MaxResumeExpenses == 4

InResumeBounds == Bounded(MaxResumeExpenses, MaxResumeExpenses)

\* sweeps on a disk that can fail, between pattern creations and deactivations
\* that find the disk working: whatever the memory holds that the file does
\* not, a sweep whose persist failed has put there
NextResume ==
    \/ \E outcome \in DiskOutcomes : DiskWill(outcome)
    \/ ~running /\ \E now \in NowSet : NewStore(now) /\ InResumeBounds
    \/ running /\ disk = "ok" /\
           \E id \in PatternIds, f \in Frequencies, sd \in StartDates, ed \in EndDates,
              now \in CreateNows :
               /\ Len(recurringPatterns) < MaxPatterns
               /\ FreshPatternId(id)
               /\ CreateRecurring(id, 10, f, sd, ed, TRUE, now)
               /\ InResumeBounds
    \/ running /\ disk = "ok" /\ \E id \in PatternIds : DeactivateRecurring(id)
    \/ running /\ \E now \in NowSet : runRecurringSweepAt(now) /\ InResumeBounds

SpecResume == Init /\ [][NextResume]_vars

\* entries in the specification of a store started on a file written by hand
MaxStoredExpenses == 4

\* the frequency a pattern of such a file can carry
StoredFrequencies == {"weekly", "Monthly ", "daily", ""}

\* a version-2 data file with one pattern from 2024-01-31, and its entry of
\* that day or no expenses
StoredFile(frequency, next, endDate, active, generated) ==
    dataEnvelope(IF generated THEN <<Expense(1, 10, "food", "rent", 20240131, 1)>> ELSE <<>>,
                 <<[id |-> 1,
                   amount |-> 10,
                   category |-> "food",
                   note |-> "rent",
                   frequency |-> frequency,
                   start_date |-> 20240131,
                   next_run_date |-> next,
                   end_date |-> endDate,
                   active |-> active]>>)

\* no process yet, and on the disk a data file whose pattern may carry a
\* frequency the store does not support
InitStored ==
    /\ expenses = <<>>
    /\ recurringPatterns = <<>>
    /\ file \in {StoredFile(f, next, ed, act, generated) :
                    f \in StoredFrequencies, next \in StartDates \cup {NoDate},
                    ed \in EndDates, act \in BOOLEAN, generated \in BOOLEAN}
    /\ nextExpenseId = 2
    /\ tmpFile = NoFile
    /\ disk = "ok"
    /\ running = FALSE
    /\ mu = Unlocked
    /\ calls = [g \in Goroutines |-> Idle]

InStoredBounds == Bounded(MaxStoredExpenses, MaxStoredExpenses)

\* the start of the process and its restarts, sweeps, and deactivations
NextStored ==
    \/ \E now \in NowSet : NewStore(now) /\ InStoredBounds
    \/ running /\ \E now \in NowSet : runRecurringSweepAt(now) /\ InStoredBounds
    \/ running /\ \E id \in PatternIds : DeactivateRecurring(id)

SpecStored == InitStored /\ [][NextStored]_vars

\* entries in the specification of the ledger and its listing
MaxListExpenses == 3

\* the categories and dates of the expenses in that specification
ListCategories == {"Food ", "rent", ""}

ListDates == {NoDate, 20240207, 20240214}

InListBounds == Bounded(MaxListExpenses, MaxListExpenses)

\* the ledger written by hand and by one pattern, and listed
NextList ==
    \/ \E c \in ListCategories, d \in ListDates, now \in CreateNows :
           Create(10, c, d, now) /\ InListBounds
    \/ \E id \in 1..MaxListExpenses, c \in ListCategories, d \in ListDates :
           Update(id, 10, c, d)
    \/ \E id \in 1..MaxListExpenses : Delete(id)
    \/ \E id \in PatternIds, now \in CreateNows :
           /\ Len(recurringPatterns) < MaxPatterns
           /\ FreshPatternId(id)
           /\ CreateRecurring(id, 10, "weekly", 20240207, 20240214, TRUE, now)
           /\ InListBounds
    \/ \E now \in NowSet : List(now) /\ InListBounds

SpecList == Init /\ [][NextList]_vars

----------------------------------------------------------------------------
(* The HTTP boundary of the ledger (handleExpenses, handleExpenseByID,      *)
(* decodeExpenseRequest)                                                   *)

\* a decoder that lets every amount through
decodeAnyAmount(amount) == FALSE

\* decodeExpenseRequest: TRUE when the request is refused, "amount must be
\* greater than zero"
decodeExpenseRequest(amount) == amount <= 0

\* POST /api/expenses: decode, then Store.Create
handleCreateExpense(amount, category, date, now) ==
    IF decodeExpenseRequest(amount) THEN UNCHANGED vars
    ELSE Create(amount, category, date, now)

\* PUT /api/expenses/{id}: decode, then Store.Update
handleUpdateExpense(id, amount, category, date) ==
    IF decodeExpenseRequest(amount) THEN UNCHANGED vars
    ELSE Update(id, amount, category, date)

\* entries in the specification of the store behind its HTTP boundary
MaxApiExpenses == 3

\* the amounts of the requests
RequestAmounts == {-5, 0, 10, 20}

InApiBounds == Bounded(MaxApiExpenses, MaxApiExpenses)

\* the requests that write the ledger and the patterns, sweeps and restarts
NextApi ==
    \/ \E a \in RequestAmounts, now \in CreateNows :
           handleCreateExpense(a, "Food ", NoDate, now) /\ InApiBounds
    \/ \E id \in 1..MaxApiExpenses, a \in RequestAmounts :
           handleUpdateExpense(id, a, "Food ", 20240207)
    \/ \E id \in 1..MaxApiExpenses : Delete(id)
    \/ \E id \in PatternIds, a \in RequestAmounts, ed \in EndDates, now \in CreateNows :
           /\ Len(recurringPatterns) < MaxPatterns
           /\ FreshPatternId(id)
           /\ CreateRecurring(id, a, "weekly", 20240131, ed, TRUE, now)
           /\ InApiBounds
    \/ \E id \in PatternIds, a \in RequestAmounts, now \in CreateNows :
           UpdateRecurring(id, a, "Monthly ", 20240131, NoDate, TRUE, now) /\ InApiBounds
    \/ \E now \in NowSet : runRecurringSweepAt(now) /\ InApiBounds
    \/ \E now \in NowSet : NewStore(now) /\ InApiBounds

SpecApi == Init /\ [][NextApi]_vars

----------------------------------------------------------------------------
(* A ledger the user edits by hand: entries of a pattern moved to other     *)
(* days (Store.Update keeps recurring_pattern_id) and entries deleted       *)

\* entries in the specification of the edited ledger
MaxEditedExpenses == 4

\* the days an edit moves an entry to
EditDates == {20240214, 20240221, 20240229, 20240306}

InEditedBounds == Bounded(MaxEditedExpenses, MaxEditedExpenses)

\* one pattern, its entries edited and deleted, its fields updated, sweeps and
\* restarts
NextEdited ==
    \/ \E f \in Frequencies, sd \in StartDates, ed \in EndDates, now \in CreateNows :
           /\ Len(recurringPatterns) < MaxPatterns
           /\ FreshPatternId(1)
           /\ CreateRecurring(1, 10, f, sd, ed, TRUE, now)
           /\ InEditedBounds
    \/ \E f \in Frequencies, sd \in StartDates, now \in CreateNows :
           UpdateRecurring(1, 10, f, sd, NoDate, TRUE, now) /\ InEditedBounds
    \/ \E id \in 1..MaxEditedExpenses, d \in EditDates : Update(id, 10, "Food ", d)
    \/ \E id \in 1..MaxEditedExpenses : Delete(id)
    \/ \E now \in NowSet : runRecurringSweepAt(now) /\ InEditedBounds
    \/ \E now \in NowSet : NewStore(now) /\ InEditedBounds

SpecEdited == Init /\ [][NextEdited]_vars

----------------------------------------------------------------------------
(* The store of the revision that creates a pattern with its first expense  *)
(* (Store.CreateExpenseWithRecurring, Store.SweepRecurringExpenses)         *)

\* a create that leaves the expense without the id of its pattern
untiedExpense(expense, patternID) == expense

\* expense.RecurringPatternID = &patternID
tiedExpense(expense, patternID) == [expense EXCEPT !.recurring_pattern_id = patternID]

\* the occurrences map of SweepRecurringExpenses: a key of pattern id and day
\* for every entry that carries a pattern id, the entries of this sweep included
occurrenceExists(exps, patternID, date) ==
    \E k \in 1..Len(exps) :
        /\ exps[k].recurring_pattern_id # NoPattern
        /\ exps[k].recurring_pattern_id = patternID
        /\ exps[k].date = date

\* for !next.After(cutoff) { ... }: the walk of the pattern at index i from
\* its cursor; it stops without deactivating after the end date
RECURSIVE sweepWalk(_, _, _)
sweepWalk(st, i, now) ==
    LET pattern == st.recurringPatterns[i]
        next == pattern.next_run_date
    IN  IF next > now THEN st
        ELSE IF pattern.end_date # NoDate /\ next > pattern.end_date THEN st
        ELSE
            LET st1 == IF ~occurrenceExists(st.expenses, pattern.id, next)
                       THEN [st EXCEPT !.expenses = Append(st.expenses,
                                           Expense(st.nextId, pattern.amount,
                                                   normalizeStoreCategory(pattern.category),
                                                   pattern.note, next, pattern.id)),
                                       !.nextId = st.nextId + 1,
                                       !.changed = TRUE]
                       ELSE st
                advanced == advanceRecurringDate(pattern.frequency, DayOf(pattern.start_date), next)
            IN  IF advanced.err \/ ~(advanced.date > next) THEN st1
                ELSE sweepWalk([st1 EXCEPT !.recurringPatterns[i].next_run_date = advanced.date,
                                           !.changed = TRUE], i, now)

\* the body of the loop over s.recurringPatterns, for the pattern at index i
sweepPattern(st, i, now) ==
    LET pattern == st.recurringPatterns[i]
        frequency == normalizeFrequency(pattern.frequency)
    IN  IF ~pattern.active \/ frequency = "" THEN st
        ELSE IF pattern.next_run_date = NoDate /\ pattern.start_date = NoDate
        THEN [st EXCEPT !.recurringPatterns[i].frequency = frequency,
                        !.changed = st.changed \/ pattern.frequency # frequency]
        ELSE sweepWalk([st EXCEPT !.recurringPatterns[i].frequency = frequency,
                                  !.recurringPatterns[i].next_run_date =
                                      IF @ = NoDate THEN pattern.start_date ELSE @,
                                  !.changed = \/ st.changed
                                              \/ pattern.frequency # frequency
                                              \/ pattern.next_run_date = NoDate],
                       i, now)

RECURSIVE sweepPatterns(_, _, _)
sweepPatterns(st, i, now) ==
    IF i > Len(st.recurringPatterns) THEN st
    ELSE sweepPatterns(sweepPattern(st, i, now), i + 1, now)

\* the memory SweepRecurringExpenses leaves
sweepRecurringLocked(exps, pats, nextId, now) ==
    sweepPatterns([expenses |-> exps, recurringPatterns |-> pats,
                   nextId |-> nextId, changed |-> FALSE], 1, now)

\* Store.SweepRecurringExpenses: the handlers call it before a read
SweepRecurringExpenses(now) ==
    LET st == sweepRecurringLocked(expenses, recurringPatterns, nextExpenseId, now)
    IN  /\ expenses' = st.expenses
        /\ recurringPatterns' = st.recurringPatterns
        /\ nextExpenseId' = st.nextId
        /\ Alone
        /\ IF st.changed THEN persistLocked(expenses', recurringPatterns')
           ELSE UNCHANGED <<file, tmpFile, disk, running>>

\* recurringPatternFromInput and the checks before it: TRUE when the recurring
\* part of the request is refused
recurringRefused(amount, frequency, expenseDate, endDate) ==
    \/ normalizeFrequency(frequency) = ""
    \/ (endDate # NoDate /\ endDate < expenseDate)
    \/ amount <= 0

\* Store.CreateExpenseWithRecurring: the expense, and with recurring # nil
\* the pattern that starts on the day of the expense; no sweep
CreateExpenseWithRecurring(amount, category, date, recurring, frequency, endDate, patternID, now) ==
    LET expenseDate == IF date = NoDate THEN now ELSE date
        expense == Expense(nextExpenseId, amount, normalizeStoreCategory(category), "rent",
                           expenseDate, NoPattern)
        pattern == [id |-> patternID,
                    amount |-> amount,
                    category |-> normalizeStoreCategory(category),
                    note |-> "rent",
                    frequency |-> normalizeFrequency(frequency),
                    start_date |-> expenseDate,
                    next_run_date |-> expenseDate,
                    end_date |-> endDate,
                    active |-> TRUE]
    IN  IF recurring /\ recurringRefused(amount, frequency, expenseDate, endDate)
        THEN UNCHANGED vars
        ELSE /\ expenses' = Append(expenses, IF recurring THEN tiedExpense(expense, patternID)
                                             ELSE expense)
             /\ recurringPatterns' = IF recurring THEN Append(recurringPatterns, pattern)
                                     ELSE recurringPatterns
             /\ nextExpenseId' = nextExpenseId + 1
             /\ Alone
             /\ persistLocked(expenses', recurringPatterns')

\* entries in the specification of this store
MaxRecurringExpenses == 3

\* the frequencies of the recurring part of a create request
RecurringFrequencies == {"weekly", "Monthly ", "daily"}

\* the amounts of a create request
RecurringAmounts == {0, 10}

\* the days of the calls: the day of the start dates and a fortnight later
RecurringNows == {20240131, 20240214}

\* what NewStore of this revision writes when the path does not exist, and
\* the store it loads from it
InitRecurring ==
    /\ expenses = <<>>
    /\ recurringPatterns = <<>>
    /\ file = dataEnvelope(<<>>, <<>>)
    /\ nextExpenseId = 1
    /\ tmpFile = NoFile
    /\ disk = "ok"
    /\ running = TRUE
    /\ mu = Unlocked
    /\ calls = [g \in Goroutines |-> Idle]

InRecurringBounds == Bounded(MaxRecurringExpenses, MaxRecurringExpenses)

\* creates with and without the recurring part, deletes and sweeps
NextRecurring ==
    \/ \E a \in RecurringAmounts, d \in CreateDates, f \in RecurringFrequencies,
          ed \in EndDates, id \in PatternIds, now \in RecurringNows :
           /\ Len(recurringPatterns) < MaxPatterns
           /\ FreshPatternId(id)
           /\ CreateExpenseWithRecurring(a, "Food ", d, TRUE, f, ed, id, now)
           /\ InRecurringBounds
    \/ \E now \in RecurringNows :
           /\ CreateExpenseWithRecurring(10, "Food ", NoDate, FALSE, "", NoDate, NoPattern, now)
           /\ InRecurringBounds
    \/ \E id \in 1..MaxRecurringExpenses : Delete(id)
    \/ \E now \in RecurringNows : SweepRecurringExpenses(now) /\ InRecurringBounds

SpecRecurring == InitRecurring /\ [][NextRecurring]_vars

----------------------------------------------------------------------------

(* Concurrent callers: each call of the store as the steps it takes between *)
(* s.mu.Lock() (or RLock) and the deferred Unlock                           *)

\* entries in the specification of concurrent callers
MaxLockExpenses == 3

\* nowFn() of the concurrent callers
LockNows == {20240131, 20240214}

\* runRecurringSweepAt: s.mu.Lock(); serial is what the sweep would leave if
\* it ran from here with nothing in between
SweepLock(g, now) ==
    LET serial == generateDueRecurringLocked(expenses, recurringPatterns, nextExpenseId, now)
    IN  /\ calls[g].at = "idle"
        /\ CanLock(mu)
        /\ Len(serial.expenses) <= MaxLockExpenses
        /\ mu' = [mu EXCEPT !.writer = g]
        /\ calls' = [calls EXCEPT ![g] = [Idle EXCEPT !.at = "pattern", !.op = "sweep",
                                                      !.now = now, !.i = 1,
                                                      !.serial = <<serial.expenses,
                                                                   serial.recurringPatterns>>]]
        /\ UNCHANGED <<expenses, recurringPatterns, file, nextExpenseId, tmpFile, disk, running>>

\* generateDueRecurringLocked, "for i := range s.recurringPatterns": the next
\* pattern, skipped when it is not active; after the last one, persist when
\* something changed
SweepPattern(g) ==
    LET c == calls[g]
    IN  /\ c.at = "pattern"
        /\ IF c.i > Len(recurringPatterns)
           THEN /\ calls' = [calls EXCEPT ![g].at = IF c.changed THEN "persist" ELSE "unlock"]
                /\ UNCHANGED recurringPatterns
           ELSE IF ~recurringPatterns[c.i].active
           THEN /\ calls' = [calls EXCEPT ![g].i = c.i + 1]
                /\ UNCHANGED recurringPatterns
           ELSE IF recurringPatterns[c.i].next_run_date = NoDate
           THEN /\ recurringPatterns' = [recurringPatterns EXCEPT
                                            ![c.i].next_run_date = recurringPatterns[c.i].start_date]
                /\ calls' = [calls EXCEPT ![g].at = "loop", ![g].changed = TRUE]
           ELSE /\ calls' = [calls EXCEPT ![g].at = "loop"]
                /\ UNCHANGED recurringPatterns
        /\ UNCHANGED <<expenses, file, nextExpenseId, tmpFile, disk, running, mu>>

\* the head of the inner loop: the loop condition, the end-date check, and
\* hasOccurrenceLocked for the day of the cursor
SweepLoop(g) ==
    LET c == calls[g]
        pattern == recurringPatterns[c.i]
        nextRunDay == pattern.next_run_date
    IN  /\ c.at = "loop"
        /\ IF nextRunDay > c.now
           THEN /\ calls' = [calls EXCEPT ![g].at = "pattern", ![g].i = c.i + 1]
                /\ UNCHANGED recurringPatterns
           ELSE IF pattern.end_date # NoDate /\ nextRunDay > pattern.end_date
           THEN /\ recurringPatterns' = [recurringPatterns EXCEPT ![c.i] = Deactivated(pattern)]
                /\ calls' = [calls EXCEPT ![g].at = "pattern", ![g].i = c.i + 1,
                                          ![g].changed = TRUE]
           ELSE /\ calls' = [calls EXCEPT
                                ![g].at = IF hasOccurrenceLocked(expenses, pattern.id, nextRunDay)
                                          THEN "advance" ELSE "append",
                                ![g].day = nextRunDay]
                /\ UNCHANGED recurringPatterns
        /\ UNCHANGED <<expenses, file, nextExpenseId, tmpFile, disk, running, mu>>

\* s.expenses = append(s.expenses, Expense{...})
SweepAppend(g) ==
    LET c == calls[g]
        pattern == recurringPatterns[c.i]
    IN  /\ c.at = "append"
        /\ expenses' = appendExpense(expenses, Expense(nextExpenseId, pattern.amount,
                                                       pattern.category, pattern.note,
                                                       c.day, pattern.id))
        /\ nextExpenseId' = nextExpenseId + 1
        /\ calls' = [calls EXCEPT ![g].at = "advance", ![g].changed = TRUE]
        /\ UNCHANGED <<recurringPatterns, file, tmpFile, disk, running, mu>>

\* advanceRecurringDate and the assignment of the cursor, then the end-date
\* check at the foot of the loop
SweepAdvance(g) ==
    LET c == calls[g]
        pattern == recurringPatterns[c.i]
        adv == advanceRecurringDate(pattern.frequency, DayOf(pattern.start_date), c.day)
        moved == [pattern EXCEPT !.next_run_date = adv.date]
    IN  /\ c.at = "advance"
        /\ IF adv.err
           THEN /\ recurringPatterns' = [recurringPatterns EXCEPT ![c.i] = Deactivated(pattern)]
                /\ calls' = [calls EXCEPT ![g].at = "pattern", ![g].i = c.i + 1,
                                          ![g].changed = TRUE]
           ELSE IF moved.end_date # NoDate /\ moved.next_run_date > moved.end_date
           THEN /\ recurringPatterns' = [recurringPatterns EXCEPT ![c.i] = Deactivated(moved)]
                /\ calls' = [calls EXCEPT ![g].at = "pattern", ![g].i = c.i + 1,
                                          ![g].changed = TRUE]
           ELSE /\ recurringPatterns' = [recurringPatterns EXCEPT ![c.i] = moved]
                /\ calls' = [calls EXCEPT ![g].at = "loop", ![g].changed = TRUE]
        /\ UNCHANGED <<expenses, file, nextExpenseId, tmpFile, disk, running, mu>>

\* s.mu.Lock() of CreateRecurring and of DeactivateRecurring
CallLock(g, op) ==
    /\ calls[g].at = "idle"
    /\ CanLock(mu)
    /\ mu' = [mu EXCEPT !.writer = g]
    /\ calls' = [calls EXCEPT ![g] = [Idle EXCEPT !.at = "locked", !.op = op]]
    /\ UNCHANGED <<expenses, recurringPatterns, file, nextExpenseId, tmpFile, disk, running>>

\* CreateRecurring between its Lock and its persistLocked: append the pattern
\* and generate what is due at nowFn()
CreateRecurringLocked(g, id, amount, frequency, startDate, endDate, now) ==
    LET pattern == [id |-> id,
                    amount |-> amount,
                    category |-> normalizeStoreCategory("Food "),
                    note |-> LowerTrim(" rent "),
                    frequency |-> normalizeFrequency(frequency),
                    start_date |-> startDate,
                    next_run_date |-> startDate,
                    end_date |-> endDate,
                    active |-> TRUE]
        st == generateDueRecurringLocked(expenses, Append(recurringPatterns, pattern),
                                         nextExpenseId, now)
    IN  /\ calls[g].at = "locked"
        /\ calls[g].op = "create"
        /\ Len(st.expenses) <= MaxLockExpenses
        /\ expenses' = st.expenses
        /\ recurringPatterns' = st.recurringPatterns
        /\ nextExpenseId' = st.nextId
        /\ calls' = [calls EXCEPT ![g].at = "persist"]
        /\ UNCHANGED <<file, tmpFile, disk, running, mu>>

\* DeactivateRecurring between its Lock and its persistLocked; an unknown id
\* is ErrNotFound, and the call returns
DeactivateRecurringLocked(g, id) ==
    /\ calls[g].at = "locked"
    /\ calls[g].op = "deactivate"
    /\ IF \E i \in 1..Len(recurringPatterns) : recurringPatterns[i].id = id
       THEN LET i == CHOOSE j \in 1..Len(recurringPatterns) : recurringPatterns[j].id = id
            IN  /\ recurringPatterns' = [recurringPatterns EXCEPT ![i] = Deactivated(@)]
                /\ calls' = [calls EXCEPT ![g].at = "persist"]
       ELSE /\ calls' = [calls EXCEPT ![g].at = "unlock"]
            /\ UNCHANGED recurringPatterns
    /\ UNCHANGED <<expenses, file, nextExpenseId, tmpFile, disk, running, mu>>

\* s.persistLocked() of the call g is in
PersistUnderLock(g) ==
    LET left == writeThenRename(disk, dataEnvelope(expenses, recurringPatterns))
    IN  /\ calls[g].at = "persist"
        /\ file' = left.file
        /\ tmpFile' = left.tmpFile
        /\ calls' = [calls EXCEPT ![g].at = "unlock"]
        /\ UNCHANGED <<expenses, recurringPatterns, nextExpenseId, disk, running, mu>>

\* the deferred s.mu.Unlock()
Unlock(g) ==
    /\ calls[g].at = "unlock"
    /\ mu' = [mu EXCEPT !.writer = NoGoroutine]
    /\ calls' = [calls EXCEPT ![g] = Idle]
    /\ UNCHANGED <<expenses, recurringPatterns, file, nextExpenseId, tmpFile, disk, running>>

\* s.mu.RLock() of Get, and of List, ListRecurring, Stats and
\* UpcomingRecurring once their sweep has returned
ReadLock(g) ==
    /\ calls[g].at = "idle"
    /\ CanRLock(mu)
    /\ mu' = [mu EXCEPT !.readers = @ \cup {g}]
    /\ calls' = [calls EXCEPT ![g] = [Idle EXCEPT !.at = "reading", !.op = "read"]]
    /\ UNCHANGED <<expenses, recurringPatterns, file, nextExpenseId, tmpFile, disk, running>>

\* the deferred s.mu.RUnlock()
ReadUnlock(g) ==
    /\ calls[g].at = "reading"
    /\ mu' = [mu EXCEPT !.readers = @ \ {g}]
    /\ calls' = [calls EXCEPT ![g] = Idle]
    /\ UNCHANGED <<expenses, recurringPatterns, file, nextExpenseId, tmpFile, disk, running>>

NextLock ==
    \/ \E g \in Goroutines, now \in LockNows : SweepLock(g, now)
    \/ \E g \in Goroutines : SweepPattern(g)
    \/ \E g \in Goroutines : SweepLoop(g)
    \/ \E g \in Goroutines : SweepAppend(g)
    \/ \E g \in Goroutines : SweepAdvance(g)
    \/ \E g \in Goroutines, op \in {"create", "deactivate"} : CallLock(g, op)
    \/ \E g \in Goroutines, id \in SweepPatternIds, f \in Frequencies, sd \in StartDates,
          ed \in EndDates, now \in CreateNows :
           /\ Len(recurringPatterns) < MaxSweepPatterns
           /\ FreshPatternId(id)
           /\ CreateRecurringLocked(g, id, 10, f, sd, ed, now)
    \/ \E g \in Goroutines, id \in SweepPatternIds : DeactivateRecurringLocked(g, id)
    \/ \E g \in Goroutines : PersistUnderLock(g)
    \/ \E g \in Goroutines : Unlock(g)
    \/ \E g \in Goroutines : ReadLock(g)
    \/ \E g \in Goroutines : ReadUnlock(g)

SpecLock == Init /\ [][NextLock]_vars

----------------------------------------------------------------------------
(* Calls that wait: a call of the store from the moment it is made, through *)
(* the wait for s.mu, to its return                                         *)

\* the calls of the store by what they lock: Lock, RLock, or the Lock of
\* runRecurringSweepAt and then RLock
WritingCalls == {"create", "deactivate", "sweep"}

SweepingReads == {"list"}

PlainReads == {"get"}

\* a goroutine calls the store: CreateRecurring, DeactivateRecurring and
\* runRecurringSweepAt go for s.mu.Lock(), List (and ListRecurring, Stats,
\* UpcomingRecurring) for the Lock of its sweep first, Get for s.mu.RLock();
\* the model has one pattern created, by one call
Call(g, op, now) ==
    /\ calls[g].at = "idle"
    /\ op = "create" => /\ recurringPatterns = <<>>
                        /\ \A h \in Goroutines : calls[h].op # "create"
    /\ calls' = [calls EXCEPT ![g] = [Idle EXCEPT
                                         !.at = IF op \in PlainReads THEN "wantRLock"
                                                ELSE "wantLock",
                                         !.op = op, !.now = now]]
    /\ UNCHANGED <<expenses, recurringPatterns, file, nextExpenseId, tmpFile, disk, running, mu>>

\* s.mu.Lock() returns: no writer and no reader holds the lock
Lock(g) ==
    /\ calls[g].at = "wantLock"
    /\ CanLock(mu)
    /\ mu' = [mu EXCEPT !.writer = g]
    /\ calls' = [calls EXCEPT ![g].at = IF calls[g].op \in {"sweep", "list"} THEN "pattern"
                                        ELSE "locked",
                              ![g].i = 1]
    /\ UNCHANGED <<expenses, recurringPatterns, file, nextExpenseId, tmpFile, disk, running>>

\* a goroutine is in s.mu.Lock(): sync.RWMutex lets no new reader in then
WriterPending == \E h \in Goroutines : calls[h].at = "wantLock"

\* s.mu.RLock() returns: no writer holds the lock and none waits for it
RLock(g) ==
    /\ calls[g].at = "wantRLock"
    /\ CanRLock(mu)
    /\ ~WriterPending
    /\ mu' = [mu EXCEPT !.readers = @ \cup {g}]
    /\ calls' = [calls EXCEPT ![g].at = "reading"]
    /\ UNCHANGED <<expenses, recurringPatterns, file, nextExpenseId, tmpFile, disk, running>>

\* a call that returns with s.mu still locked
returnLocked(g) ==
    /\ calls[g].at = "unlock"
    /\ calls' = [calls EXCEPT ![g] = IF calls[g].op \in SweepingReads
                                     THEN [Idle EXCEPT !.at = "wantRLock", !.op = calls[g].op]
                                     ELSE Idle]
    /\ UNCHANGED <<expenses, recurringPatterns, file, nextExpenseId, tmpFile, disk, running, mu>>

\* the deferred s.mu.Unlock(): the call returns, and a read that has swept
\* goes on to s.mu.RLock()
Return(g) ==
    /\ calls[g].at = "unlock"
    /\ mu' = [mu EXCEPT !.writer = NoGoroutine]
    /\ calls' = [calls EXCEPT ![g] = IF calls[g].op \in SweepingReads
                                     THEN [Idle EXCEPT !.at = "wantRLock", !.op = calls[g].op]
                                     ELSE Idle]
    /\ UNCHANGED <<expenses, recurringPatterns, file, nextExpenseId, tmpFile, disk, running>>

\* nowFn() of the waiting callers
LiveNows == {20240214}

\* the steps of goroutine g that wait for nothing
Running(g) ==
    \/ SweepPattern(g)
    \/ SweepLoop(g)
    \/ SweepAppend(g)
    \/ SweepAdvance(g)
    \/ \E f \in Frequencies, ed \in EndDates :
           CreateRecurringLocked(g, g, 10, f, 20240131, ed, 20240131)
    \/ \E id \in SweepPatternIds : DeactivateRecurringLocked(g, id)
    \/ PersistUnderLock(g)
    \/ Return(g)
    \/ ReadUnlock(g)

NextLive ==
    \/ \E g \in Goroutines, op \in WritingCalls \cup SweepingReads \cup PlainReads,
          now \in LiveNows : Call(g, op, now)
    \/ \E g \in Goroutines : Lock(g)
    \/ \E g \in Goroutines : RLock(g)
    \/ \E g \in Goroutines : Running(g)

\* a goroutine that can run does run, and sync.RWMutex hands the lock to a
\* goroutine that waits for it once it is free often enough (a waiter of more
\* than a millisecond gets the mutex handed over); no caller is bound to call
SpecLive ==
    /\ Init
    /\ [][NextLive]_vars
    /\ \A g \in Goroutines : /\ WF_vars(Running(g))
                             /\ SF_vars(Lock(g))
                             /\ SF_vars(RLock(g))

----------------------------------------------------------------------------

(* Properties *)

Swept(now) == generateDueRecurringLocked(expenses, recurringPatterns, nextExpenseId, now)

NextRunDates(pats) == [i \in 1..Len(pats) |-> pats[i].next_run_date]

\* C1: whatever the patterns and the ledger, a second sweep with the same now
\* creates no entry and leaves the ledger and every next_run_date as the first
\* sweep left them.
C1_SweepIdempotent ==
    \A now \in NowSet :
        LET r1 == Swept(now)
            r2 == generateDueRecurringLocked(r1.expenses, r1.recurringPatterns, r1.nextId, now)
        IN  /\ r2.expenses = r1.expenses
            /\ NextRunDates(r2.recurringPatterns) = NextRunDates(r1.recurringPatterns)

\* a state in which a first sweep creates entries and moves a cursor
C1_Witness ==
    \E now \in NowSet :
        /\ Len(Swept(now).expenses) > Len(expenses) + 1
        /\ NextRunDates(Swept(now).recurringPatterns) # NextRunDates(recurringPatterns)

\* the entries of exps that carry the pattern id and the date
EntriesFor(exps, patternID, date) ==
    {k \in 1..Len(exps) : exps[k].recurring_pattern_id = patternID /\ exps[k].date = date}

\* C2: in every reachable state of the store, after any sequence of entry
\* create, update and delete, pattern create, update and deactivate, and
\* sweeps, the ledger holds at most one entry for any pair of
\* recurring_pattern_id and calendar date.
C2_AtMostOneEntryPerPatternDate ==
    \A i \in 1..Len(expenses) :
        expenses[i].recurring_pattern_id # NoPattern =>
            Cardinality(EntriesFor(expenses, expenses[i].recurring_pattern_id,
                                   expenses[i].date)) <= 1

----------------------------------------------------------------------------
(* The calendar of the properties.  Every date of the model lies in 2024,  *)
(* and the series of a pattern are stated here from the calendar itself,   *)
(* not through advanceRecurringDate.                                       *)

MonthLengths2024 == <<31, 29, 31, 30, 31, 30, 31, 31, 30, 31, 30, 31>>

DaysBeforeMonth2024 == <<0, 31, 60, 91, 121, 152, 182, 213, 244, 274, 305, 335>>

\* the dates of January to June
Calendar2024 ==
    {t \in {MkDate(2024, m, d) : m \in 1..6, d \in 1..31} :
        DayOf(t) <= MonthLengths2024[MonthOf(t)]}

\* the day of the year
DayNumber(t) == DaysBeforeMonth2024[MonthOf(t)] + DayOf(t)

\* the dates from, from + 7 days, from + 14 days, ... that are on or before limit
WeeklySeries(from, limit) ==
    {d \in Calendar2024 : /\ from <= d
                          /\ d <= limit
                          /\ (DayNumber(d) - DayNumber(from)) % 7 = 0}

\* the first date of from, from + 7 days, ... that is after now
FirstWeeklyAfter(from, now) ==
    IF from > now THEN from
    ELSE CHOOSE d \in Calendar2024 :
             /\ (DayNumber(d) - DayNumber(from)) % 7 = 0
             /\ DayNumber(now) < DayNumber(d)
             /\ DayNumber(d) <= DayNumber(now) + 7

\* the day min(anchor, days in the month), k calendar months after the month of from
MonthlyTarget(from, anchor, k) ==
    LET month == MonthOf(from) + k
        last == MonthLengths2024[month]
    IN  MkDate(2024, month, IF anchor < last THEN anchor ELSE last)

\* from, then the monthly targets of the following months, on or before limit
MonthlySeries(from, anchor, limit) ==
    {d \in {from} \cup {MonthlyTarget(from, anchor, k) : k \in 1..(6 - MonthOf(from))} :
        d <= limit}

\* the occurrences of pattern p, counted from its start date, on or before now
\* and on or before its end date
DueOccurrences(p, now) ==
    LET limit == IF p.end_date # NoDate /\ p.end_date < now THEN p.end_date ELSE now
    IN  IF p.frequency = "weekly" THEN WeeklySeries(p.start_date, limit)
        ELSE MonthlySeries(p.start_date, DayOf(p.start_date), limit)

\* the store a process restart finds: the file loaded, then swept at now
Restarted(now) ==
    LET loaded == load(file)
    IN  generateDueRecurringLocked(loaded.expenses, loaded.recurringPatterns, nextExpenseId, now)

\* every occurrence of every active pattern of st due at now has exactly one entry
ExactlyOncePerDueOccurrence(st, now) ==
    \A i \in 1..Len(st.recurringPatterns) :
        LET p == st.recurringPatterns[i]
        IN  p.active =>
                \A d \in DueOccurrences(p, now) :
                    Cardinality(EntriesFor(st.expenses, p.id, d)) = 1

\* C3: across any sequence of sweeps, process restarts and further sweeps, once
\* a sweep at now is done (by the running store or by the store a restart
\* creates from the file), every occurrence of an active pattern due on or
\* before now has exactly one ledger entry.
C3_ExactlyOncePerDueOccurrence ==
    \A now \in NowSet :
        /\ ExactlyOncePerDueOccurrence(Swept(now), now)
        /\ ExactlyOncePerDueOccurrence(Restarted(now), now)

\* two active patterns with generated entries and moved cursors, one of them
\* monthly with its three occurrences of January to March in the ledger
C3_Witness ==
    /\ Len(recurringPatterns) = 2
    /\ \A i \in 1..2 : /\ recurringPatterns[i].active
                       /\ recurringPatterns[i].next_run_date > recurringPatterns[i].start_date
    /\ \E i \in 1..2 : /\ recurringPatterns[i].frequency = "monthly"
                       /\ recurringPatterns[i].next_run_date = 20240430
                       /\ EntriesFor(expenses, recurringPatterns[i].id, 20240229) # {}
    /\ file = dataEnvelope(expenses, recurringPatterns)

\* the dates of the entries of exps, from position first on, that carry the pattern id
DatesFrom(exps, first, patternID) ==
    {exps[k].date : k \in {j \in first..Len(exps) : exps[j].recurring_pattern_id = patternID}}

C5_MonthlyAnchorDay ==
    \A now \in NowSet : \A i \in 1..Len(recurringPatterns) :
        LET p == recurringPatterns[i]
            c == p.next_run_date
            anchor == DayOf(p.start_date)
            r == Swept(now)
            q == r.recurringPatterns[i]
            n == MonthOf(q.next_run_date) - MonthOf(c)
            walked == {IF k = 0 THEN c ELSE MonthlyTarget(c, anchor, k) : k \in 0..(n - 1)}
        IN  p.frequency = "monthly" =>
                /\ advanceRecurringDate(p.frequency, anchor, c) =
                       [err |-> FALSE, date |-> MonthlyTarget(c, anchor, 1)]
                /\ p.active =>
                       /\ n >= 0
                       /\ q.next_run_date = IF n = 0 THEN c ELSE MonthlyTarget(c, anchor, n)
                       /\ DatesFrom(r.expenses, Len(expenses) + 1, p.id) \subseteq walked
                       /\ \A d \in walked : EntriesFor(r.expenses, p.id, d) # {}

\* a monthly pattern anchored on the 31st whose entries of 29 February and
\* 31 March are in the ledger and whose cursor is 30 April
C5_Witness ==
    \E i \in 1..Len(recurringPatterns) :
        LET p == recurringPatterns[i]
        IN  /\ p.frequency = "monthly" /\ p.start_date = 20240131
            /\ EntriesFor(expenses, p.id, 20240229) # {}
            /\ EntriesFor(expenses, p.id, 20240331) # {}
            /\ p.next_run_date = 20240430

\* the occurrences of p from its cursor on, on or before limit
SeriesFromCursor(p, limit) ==
    IF p.frequency = "weekly" THEN WeeklySeries(p.next_run_date, limit)
    ELSE MonthlySeries(p.next_run_date, DayOf(p.start_date), limit)

\* C6: for a pattern with end_date set, a sweep at a now after end_date
\* creates entries only for occurrences on or before end_date, end_date itself
\* included, and after that sweep the pattern is Dormant (active = false).
C6_EndDateBoundary ==
    \A now \in NowSet : \A i \in 1..Len(recurringPatterns) :
        LET p == recurringPatterns[i]
            r == Swept(now)
            q == r.recurringPatterns[i]
            created == DatesFrom(r.expenses, Len(expenses) + 1, p.id)
        IN  (p.end_date # NoDate /\ now > p.end_date) =>
                /\ ~q.active
                /\ \A d \in created : d <= p.end_date
                /\ created \subseteq SeriesFromCursor(p, p.end_date)
                /\ p.active =>
                       \A d \in SeriesFromCursor(p, p.end_date) :
                           EntriesFor(r.expenses, p.id, d) # {}

\* an active pattern with an end date, already swept once, for which a sweep
\* after the end date creates the entry of the end date itself
C6_Witness ==
    \E now \in NowSet : \E i \in 1..Len(recurringPatterns) :
        LET p == recurringPatterns[i]
        IN  /\ p.active /\ p.end_date # NoDate /\ now > p.end_date
            /\ p.next_run_date > p.start_date
            /\ p.end_date \in DatesFrom(Swept(now).expenses, Len(expenses) + 1, p.id)
            /\ ~Swept(now).recurringPatterns[i].active

\* C7: in every reachable state, after any sequence of pattern create, pattern
\* update and sweep, a pattern that has end_date set and next_run_date after
\* end_date has active = false.
C7_PastEndDateIsInactive ==
    \A i \in 1..Len(recurringPatterns) :
        LET p == recurringPatterns[i]
        IN  (p.end_date # NoDate /\ p.next_run_date > p.end_date) => ~p.active

\* a monthly pattern whose cursor the sweep has moved past its end date
C7_Witness ==
    \E i \in 1..Len(recurringPatterns) :
        LET p == recurringPatterns[i]
        IN  /\ p.frequency = "monthly"
            /\ p.end_date = 20240214 /\ p.next_run_date = 20240229
            /\ ~p.active

\* C8: Dormant is terminal: once a pattern's active flag is false, no later
\* operation (sweep, updatePattern, deactivatePattern) makes it true again.
C8_DormantIsTerminal ==
    [][\A i \in 1..Len(recurringPatterns) :
           (i <= Len(recurringPatterns') /\ ~recurringPatterns[i].active) =>
               ~recurringPatterns'[i].active]_vars

\* C9: a sweep never creates an entry for, and never moves the next_run_date
\* of, a pattern whose active flag is false, whatever its end_date and however
\* far its next_run_date lies in the past; the sweep of a restart included.
C9_SweepSkipsInactive ==
    \A now \in NowSet : \A i \in 1..Len(recurringPatterns) :
        LET p == recurringPatterns[i]
        IN  ~p.active =>
                /\ Swept(now).recurringPatterns[i] = p
                /\ DatesFrom(Swept(now).expenses, Len(expenses) + 1, p.id) = {}
                /\ Restarted(now).recurringPatterns[i] = p
                /\ DatesFrom(Restarted(now).expenses, Len(expenses) + 1, p.id) = {}

\* an inactive pattern whose cursor is due, beside an active pattern for which
\* the same sweep creates entries
C9_Witness ==
    \E now \in NowSet : \E i, j \in 1..Len(recurringPatterns) :
        /\ ~recurringPatterns[i].active
        /\ recurringPatterns[i].next_run_date < now
        /\ recurringPatterns[j].active
        /\ DatesFrom(Swept(now).expenses, Len(expenses) + 1, recurringPatterns[j].id) # {}

\* C10: next_run_date is non-decreasing across sweeps: no sweep, whatever its
\* now, leaves the next_run_date of a pattern earlier than it was before.
C10_CursorNeverMovesBack ==
    \A now \in NowSet : \A i \in 1..Len(recurringPatterns) :
        /\ Swept(now).recurringPatterns[i].next_run_date >= recurringPatterns[i].next_run_date
        /\ Restarted(now).recurringPatterns[i].next_run_date >= recurringPatterns[i].next_run_date

\* a pattern, already moved past its start, whose cursor a sweep moves again
\* and past its end date
C10_Witness ==
    \E now \in NowSet : \E i \in 1..Len(recurringPatterns) :
        LET p == recurringPatterns[i]
            q == Swept(now).recurringPatterns[i]
        IN  /\ p.next_run_date > p.start_date
            /\ q.next_run_date > p.next_run_date
            /\ p.end_date # NoDate /\ q.next_run_date > p.end_date

\* C11: in every reachable state, each pattern's next_run_date is never before
\* its start_date and is a member of the series obtained by repeatedly
\* applying the calendar advance, with the pattern's frequency and anchor day,
\* to start_date; also after updatePattern has changed frequency or start_date.
C11_CursorOnSeriesFromStart ==
    \A i \in 1..Len(recurringPatterns) :
        LET p == recurringPatterns[i]
        IN  /\ p.next_run_date >= p.start_date
            /\ p.next_run_date \in
                   (IF p.frequency = "weekly"
                    THEN WeeklySeries(p.start_date, p.next_run_date)
                    ELSE MonthlySeries(p.start_date, DayOf(p.start_date), p.next_run_date))

\* C12: a sweep only appends entries: every ledger entry that existed before
\* the sweep, generated or manual, is still there after it, at its place and
\* with every field as it was.
C12_SweepOnlyAppends ==
    \A now \in NowSet :
        /\ Len(Swept(now).expenses) >= Len(expenses)
        /\ \A k \in 1..Len(expenses) : Swept(now).expenses[k] = expenses[k]

\* a ledger with a manual entry and a generated entry, to which a sweep adds
\* a further entry of the same pattern
C12_Witness ==
    \E now \in NowSet : \E k, m \in 1..Len(expenses) :
        /\ expenses[k].recurring_pattern_id = NoPattern
        /\ expenses[m].recurring_pattern_id # NoPattern
        /\ DatesFrom(Swept(now).expenses, Len(expenses) + 1,
                     expenses[m].recurring_pattern_id) # {}

\* C13: the upcoming-occurrence projector is read-only: a call to
\* Upcoming(now, horizonDays) leaves every pattern (next_run_date, active), the
\* ledger and the persisted file exactly as they were before the call.
C13_UpcomingIsReadOnly ==
    [][\A days \in HorizonDays : \A now \in NowSet :
           UpcomingRecurring(days, now) =>
               UNCHANGED <<expenses, recurringPatterns, file>>]_vars

\* the dates on or after now and at most horizon days after it
InWindow(d, now, horizon) ==
    /\ d >= now
    /\ DayNumber(d) <= DayNumber(now) + horizon

\* the pairs of pattern id and date a preview of pats owes: for every active
\* pattern the dates of its series from the cursor on that lie in the window
\* and not after the end date
ExpectedUpcoming(pats, horizon, now) ==
    UNION {{<<pats[i].id, d>> :
               d \in {x \in SeriesFromCursor(pats[i], 20240630) :
                         /\ InWindow(x, now, horizon)
                         /\ pats[i].end_date # NoDate => x <= pats[i].end_date}} :
           i \in {j \in 1..Len(pats) : pats[j].active}}

\* the preview list says what ExpectedUpcoming owes, each occurrence once and
\* with the amount, category and note of its pattern
PreviewIsExact(pats, days, now) ==
    LET list == upcomingLocked(pats, days, now)
        horizon == IF days = 0 THEN 30 ELSE days
    IN  /\ {<<list[k].pattern_id, list[k].date>> : k \in 1..Len(list)} =
               ExpectedUpcoming(pats, horizon, now)
        /\ Len(list) = Cardinality(ExpectedUpcoming(pats, horizon, now))
        /\ \A k \in 1..Len(list) : \E i \in 1..Len(pats) :
               list[k] = UpcomingRecurringOccurrence(pats[i], list[k].date)

\* C14: Upcoming(now, horizon) returns, for every Active pattern, exactly the
\* occurrences of its series from the cursor onward whose date lies in
\* [now, now + horizon] and is not after end_date, and nothing for Dormant
\* patterns; the patterns are those the projection reads, which are the ones
\* the sweep at now has left, and the statement holds of the projection of
\* the patterns of any reachable state as well.
C14_UpcomingIsExact ==
    \A days \in HorizonDays : \A now \in NowSet :
        /\ PreviewIsExact(Swept(now).recurringPatterns, days, now)
        /\ PreviewIsExact(recurringPatterns, days, now)

\* an active pattern whose series the end date cuts inside the window, beside
\* a dormant pattern, and a preview that lists two occurrences or more
C14_Witness ==
    \E days \in HorizonDays : \E now \in NowSet : \E i, j \in 1..Len(recurringPatterns) :
        LET pats == Swept(now).recurringPatterns
        IN  /\ pats[i].active /\ pats[i].end_date # NoDate
            /\ pats[i].next_run_date <= pats[i].end_date
            /\ InWindow(pats[i].end_date, now, days)
            /\ ~pats[j].active
            /\ Len(upcomingLocked(pats, days, now)) >= 2

\* C15: the list Upcoming returns is sorted by date ascending, and
\* occurrences with the same date are ordered by pattern identifier.
C15_UpcomingIsSorted ==
    \A days \in HorizonDays : \A now \in NowSet :
        LET list == upcomingLocked(Swept(now).recurringPatterns, days, now)
        IN  \A a, b \in 1..Len(list) :
                a < b =>
                    \/ list[a].date < list[b].date
                    \/ /\ list[a].date = list[b].date
                       /\ list[a].pattern_id < list[b].pattern_id

\* two active patterns, the one with the larger id first in the store, whose
\* previews share a date
C15_Witness ==
    \E days \in HorizonDays : \E now \in NowSet :
        LET pats == Swept(now).recurringPatterns
            list == upcomingLocked(pats, days, now)
        IN  /\ Len(pats) = 2
            /\ pats[1].id > pats[2].id
            /\ \E a, b \in 1..Len(list) :
                   /\ list[a].date = list[b].date
                   /\ list[a].pattern_id # list[b].pattern_id

\* the store that NewStore would build from the data file f
Reloaded(f) ==
    [expenses |-> load(f).expenses, recurringPatterns |-> load(f).recurringPatterns]

\* the step edits or deletes the entry e of the ledger
EditsOrDeletes(e) ==
    \/ \E k \in 1..Len(expenses') : expenses'[k].id = e.id /\ expenses'[k] # e
    \/ \A k \in 1..Len(expenses') : expenses'[k].id # e.id

\* C16: a store loaded from a legacy bare-array file holds every legacy
\* expense with its category normalized, and any mutation of it leaves a
\* version-2 envelope from which the store is re-created as the mutation left
\* it: every legacy expense the mutation did not itself edit or delete is in
\* it, beside the effect of the mutation.
C16_LegacyMigration ==
    [][(running /\ file.version = 1) =>
           /\ Len(expenses) = Len(file.expenses)
           /\ \A k \in 1..Len(expenses) :
                  expenses[k] = [file.expenses[k] EXCEPT
                                    !.category = normalizeStoreCategory(@)]
           /\ <<expenses', recurringPatterns'>> # <<expenses, recurringPatterns>> =>
                  /\ file'.version = 2
                  /\ Reloaded(file') =
                         [expenses |-> expenses', recurringPatterns |-> recurringPatterns']
                  /\ \A k \in 1..Len(expenses) :
                         \/ \E j \in 1..Len(file'.expenses) : file'.expenses[j] = expenses[k]
                         \/ EditsOrDeletes(expenses[k])]_vars

\* a version-2 envelope that holds the legacy expense with its category
\* normalized, beside an entry created after the load
C16_Witness ==
    /\ running
    /\ file.version = 2
    /\ \E k \in 1..Len(file.expenses) :
           file.expenses[k] = [LegacyFile.expenses[1] EXCEPT !.category = "food"]
    /\ Len(file.expenses) >= 2

\* C17: every write the store makes to the backing file has the version-2
\* envelope shape, and once the file is a version-2 envelope no later
\* operation turns it back into a bare array.
C17_WritesAreVersion2 ==
    [][/\ file' # file => file'.version = 2
       /\ file.version = 2 => file'.version = 2]_vars

\* C18: persist writes the full envelope to a temporary path and then renames
\* it over the real path, so that at every instant, a crash inside the write
\* of the temporary file or between that write and the rename included, the
\* real file holds the complete previous envelope or the complete new one,
\* never a truncated or unparseable one.
C18_AtomicReplace ==
    /\ [](file.version \in {1, 2})
    /\ [][file' = file \/ file' = dataEnvelope(expenses', recurringPatterns')]_vars

\* the process died inside the write of the temporary file: the temporary
\* file is a fragment, the data file the complete envelope of before
C18_Witness ==
    /\ ~running
    /\ tmpFile = HalfWritten
    /\ file.version = 2
    /\ file # dataEnvelope(expenses, recurringPatterns)

\* C19: when the persist step of a mutating operation fails, the operation
\* returns the error and the in-memory ledger and pattern set are the same as
\* before the operation began, so that memory and file stay consistent.
C19_FailedPersistChangesNothing ==
    [][(running /\ running' /\ disk' = disk /\ disk \in {"write_error", "rename_error"}) =>
           UNCHANGED <<expenses, recurringPatterns>>]_vars


\* no occurrence of an active pattern of pats due on or before now lacks its
\* entry in exps
NothingOverdue(exps, pats, now) ==
    \A i \in 1..Len(pats) :
        pats[i].active =>
            \A d \in DueOccurrences(pats[i], now) : EntriesFor(exps, pats[i].id, d) # {}

\* C20: a sweep runs at process start and before every operation that reads
\* the ledger, the patterns, the stats or the upcoming preview, so that a read
\* at time now never reads a state in which an active pattern has an
\* occurrence on or before now without its ledger entry: the state NewStore
\* leaves, the state List, ListRecurring, Stats and UpcomingRecurring read
\* (the one their sweep leaves), and the state Get reads (the one it finds).
C20_NoReadIsStale ==
    \A now \in NowSet :
        /\ NothingOverdue(Restarted(now).expenses, Restarted(now).recurringPatterns, now)
        /\ NothingOverdue(Swept(now).expenses, Swept(now).recurringPatterns, now)
        /\ NothingOverdue(expenses, recurringPatterns, now)

\* the reads that sweep first never read an overdue occurrence
SweepingReadsAreFresh ==
    \A now \in NowSet :
        /\ NothingOverdue(Restarted(now).expenses, Restarted(now).recurringPatterns, now)
        /\ NothingOverdue(Swept(now).expenses, Swept(now).recurringPatterns, now)

\* goroutine g is between the Lock and the Unlock of a mutating call
InWrite(g) ==
    calls[g].at \in {"locked", "pattern", "loop", "append", "advance", "persist", "unlock"}

\* no two writers overlap, and no reader overlaps a writer
WritersAreAlone ==
    \A g \in Goroutines, h \in Goroutines :
        (g # h /\ InWrite(g)) => (~InWrite(h) /\ calls[h].at # "reading")

\* no pattern has two entries on one day
NoDuplicateEntries ==
    \A j \in 1..Len(expenses), k \in 1..Len(expenses) :
        (j # k /\ expenses[j].recurring_pattern_id # NoPattern) =>
            ~(/\ expenses[j].recurring_pattern_id = expenses[k].recurring_pattern_id
              /\ expenses[j].date = expenses[k].date)

\* a goroutine that holds the shared lock finds no pattern with an entry on
\* the day its cursor still points at
ReadersSeeWholeSweeps ==
    \A g \in Goroutines :
        calls[g].at = "reading" =>
            \A i \in 1..Len(recurringPatterns) :
                ~hasOccurrenceLocked(expenses, recurringPatterns[i].id,
                                     recurringPatterns[i].next_run_date)

\* while nobody holds the exclusive lock the file holds the memory: every
\* change of the memory lies between a Lock and the end of its persist
LockCoversPersist ==
    mu.writer = NoGoroutine =>
        Reloaded(file) = [expenses |-> expenses, recurringPatterns |-> recurringPatterns]

\* a sweep, when it unlocks, leaves what it would have left had it run alone
\* from the state it locked
SweepsAreSerial ==
    \A g \in Goroutines :
        (calls[g].op = "sweep" /\ calls[g].at = "unlock") =>
            <<expenses, recurringPatterns>> = calls[g].serial

\* C21: every mutating operation, every sweep among them, holds the exclusive
\* lock from its first change of the memory until its persist is done, and
\* every read holds the shared lock; under any interleaving of two concurrent
\* callers no two writers overlap, concurrent sweeps create no duplicate
\* entry, and no reader sees a sweep that has appended an entry and not yet
\* advanced the cursor.
C21_LockDiscipline ==
    /\ WritersAreAlone
    /\ NoDuplicateEntries
    /\ ReadersSeeWholeSweeps
    /\ LockCoversPersist
    /\ SweepsAreSerial

\* a sweep in the middle of its second occurrence, the entry appended and the
\* cursor still on its day, while the other goroutine is kept out
C21_Witness ==
    \E g \in Goroutines :
        /\ calls[g].at = "advance"
        /\ mu.writer = g
        /\ Len(expenses) >= 2
        /\ hasOccurrenceLocked(expenses, recurringPatterns[calls[g].i].id,
                               recurringPatterns[calls[g].i].next_run_date)
        /\ \A h \in Goroutines \ {g} : calls[h].at = "idle"

\* C22: an error raised while a sweep generates or persists is returned to the
\* caller that triggered the sweep, also when the sweep is triggered from a
\* read (List, ListRecurring, Stats, UpcomingRecurring): whenever the sweep
\* of a read at now returns an error, the read returns it.
C22_SweepErrorReachesCaller ==
    \A now \in NowSet :
        (running /\ sweepError(now)) => readError(now)

\* the latest now: the same as, or later than, the now of any sweep before
LastNow == CHOOSE n \in NowSet : \A m \in NowSet : m <= n

\* the data file a sweep at now leaves on a working disk
FileAfterSweep(now) ==
    IF Swept(now).changed
    THEN dataEnvelope(Swept(now).expenses, Swept(now).recurringPatterns)
    ELSE file

\* the memory a successful sweep at LastNow leaves has exactly one entry for
\* every occurrence due
ResumedMemoryIsComplete ==
    (running /\ disk = "ok") => ExactlyOncePerDueOccurrence(Swept(LastNow), LastNow)

\* C23: after a sweep that failed part-way (its persist failed), the next
\* successful sweep with the same or a later now leaves exactly one entry per
\* due occurrence and the advanced cursors, in the memory and in the
\* persisted file as well, with no rollback in between.
C23_NextSweepRepairsFile ==
    (running /\ disk = "ok") =>
        /\ ExactlyOncePerDueOccurrence(Swept(LastNow), LastNow)
        /\ Reloaded(FileAfterSweep(LastNow)) =
               [expenses |-> Swept(LastNow).expenses,
                recurringPatterns |-> Swept(LastNow).recurringPatterns]

\* the frequencies handed to the calendar advance
AdvanceFrequencies == {"weekly", "monthly", "Monthly ", "daily", "yearly", ""}

\* weekly or monthly, in any case and with blanks around it
SupportedFrequency(f) == f \in {"weekly", "monthly", "Monthly "}

\* C24: the calendar advance, given a frequency other than weekly or monthly,
\* signals an error to its caller and never returns a date computed with a
\* default cadence: from every cursor of the store it returns the error and
\* the zero time for such a frequency (and a later date and no error for
\* weekly and monthly), and a sweep leaves the cursor of a pattern that
\* carries such a frequency where it is.
C24_UnsupportedFrequencyIsAnError ==
    \A i \in 1..Len(recurringPatterns) :
        LET p == recurringPatterns[i]
        IN  /\ \A f \in AdvanceFrequencies :
                   LET r == advanceRecurringDate(f, DayOf(p.start_date), p.next_run_date)
                   IN  IF SupportedFrequency(f)
                       THEN ~r.err /\ r.date > p.next_run_date
                       ELSE r.err /\ r.date = NoDate
            /\ ~SupportedFrequency(p.frequency) =>
                   \A now \in NowSet :
                       Swept(now).recurringPatterns[i].next_run_date = p.next_run_date

\* the store has loaded an active pattern without a supported frequency that
\* ends on 2024-02-14, and a sweep has met it on its cursor day: the entry of
\* that day is in the ledger and the cursor has not moved
C24_Witness ==
    /\ running
    /\ Len(recurringPatterns) = 1
    /\ ~SupportedFrequency(recurringPatterns[1].frequency)
    /\ recurringPatterns[1].end_date = 20240214
    /\ recurringPatterns[1].next_run_date = 20240207
    /\ hasOccurrenceLocked(expenses, recurringPatterns[1].id, recurringPatterns[1].next_run_date)

\* pattern i, active before the step, is not active after it
GoesDormant(i) ==
    /\ i <= Len(recurringPatterns')
    /\ recurringPatterns'[i].id = recurringPatterns[i].id
    /\ recurringPatterns[i].active
    /\ ~recurringPatterns'[i].active

\* the step is the user's deactivation of pattern i: the active flag of that
\* pattern and nothing else in the memory
DeactivatedByUser(i) ==
    /\ recurringPatterns' = [recurringPatterns EXCEPT ![i] = [@ EXCEPT !.active = FALSE]]
    /\ expenses' = expenses

PatternInputs ==
    {-5, 0, 10} \X AdvanceFrequencies \X StartDates \X {NoDate, 20240131, 20240214}

\* the inputs with a frequency that is not weekly or monthly, an amount that
\* is not greater than zero, or an end date before the start date
InvalidPatternInputs ==
    {in \in PatternInputs :
        \/ in[1] <= 0
        \/ ~SupportedFrequency(in[2])
        \/ (in[4] # NoDate /\ in[4] < in[3])}

\* C26: CreateRecurring and UpdateRecurring reject every input whose frequency
\* is not weekly or monthly, whose amount is not greater than zero, or whose
\* end_date is before its start_date: validation returns the error, and no
\* step of either operation on such an input changes the pattern set, the
\* ledger or the file.
C26_InvalidPatternIsRejected ==
    \A in \in InvalidPatternInputs :
        /\ validateRecurringInput(in[1], in[2], in[3], in[4])
        /\ \A id \in PatternIds, act \in BOOLEAN, now \in CreateNows :
               /\ ~ENABLED (/\ CreateRecurring(id, in[1], in[2], in[3], in[4], act, now)
                            /\ ~UNCHANGED vars)
               /\ ~ENABLED (/\ UpdateRecurring(id, in[1], in[2], in[3], in[4], act, now)
                            /\ ~UNCHANGED vars)

\* a store with a pattern and a generated entry on which an update with an end
\* date before the start date is rejected and an update with the end date on
\* the start date is not
C26_Witness ==
    /\ Len(recurringPatterns) = 1
    /\ Len(expenses) >= 1
    /\ ENABLED (/\ UpdateRecurring(recurringPatterns[1].id, 10, "weekly", 20240207, 20240131,
                                   TRUE, 20240131)
                /\ UNCHANGED vars)
    /\ ENABLED (/\ UpdateRecurring(recurringPatterns[1].id, 10, "weekly", 20240131, 20240131,
                                   TRUE, 20240131)
                /\ ~UNCHANGED vars)

\* the expense ids no entry of the ledger carries, and the pattern ids no
\* pattern carries
UnknownExpenseIds ==
    {id \in 1..(MaxExpenseId + 1) : \A i \in 1..Len(expenses) : expenses[i].id # id}

UnknownPatternIds ==
    {id \in 1..(MaxPatterns + 1) : \A i \in 1..Len(recurringPatterns) : recurringPatterns[i].id # id}

SoftDeleted(i) ==
    /\ Len(recurringPatterns') = Len(recurringPatterns)
    /\ ~recurringPatterns'[i].active
    /\ \A k \in 1..Len(recurringPatterns) :
           [recurringPatterns'[k] EXCEPT !.active = recurringPatterns[k].active] =
               recurringPatterns[k]
    /\ expenses' = expenses
    /\ Reloaded(file') = [expenses |-> expenses', recurringPatterns |-> recurringPatterns']

ListFilters ==
    {ExpenseFilter(c, from, to) :
        c \in {"", "food", "rent"}, from \in {NoDate, 20240207}, to \in {NoDate, 20240207}}

\* the entry is of the filter's category, when there is one, and its day lies
\* within the filter's days, both included, when there are any
WithinFilter(e, f) ==
    /\ (f.category = "" \/ e.category = f.category)
    /\ (f.from = NoDate \/ e.date >= f.from)
    /\ (f.to = NoDate \/ e.date <= f.to)

\* result holds every entry of exps that is within f once, nothing else, and
\* no entry before one of a later date
IsListOf(result, exps, f) ==
    /\ \A k \in 1..Len(exps) :
           Cardinality({j \in 1..Len(result) : result[j] = exps[k]}) =
               (IF WithinFilter(exps[k], f) THEN 1 ELSE 0)
    /\ \A j \in 1..Len(result) : \E k \in 1..Len(exps) : result[j] = exps[k]
    /\ \A j \in 1..Len(result), k \in 1..Len(result) :
           j < k => result[j].date >= result[k].date

\* C29: for every ledger and every filter, List returns exactly the entries
\* that match the filter (the category of the filter when it has one, the
\* date within the days from and to, both included, when it has them, and all
\* entries under the empty filter), ordered by date descending; the ledger
\* List reads is the one its sweep at now leaves.
C29_ListIsExact ==
    \A f \in ListFilters, now \in NowSet :
        IsListOf(listLocked(Swept(now).expenses, f), Swept(now).expenses, f)

\* three entries, stored with the earliest first, of which the filter "food
\* up to 2024-02-07" takes two and leaves the third
C29_Witness ==
    /\ Len(expenses) = 3
    /\ expenses[1].date < expenses[2].date
    /\ Len(listLocked(expenses, ExpenseFilter("food", NoDate, 20240207))) = 2
    /\ \E k \in 1..3 : expenses[k].date = 20240207 /\ expenses[k].category = "food"
    /\ listLocked(expenses, ExpenseFilter("", NoDate, NoDate)) # expenses

\* every entry of the ledger has an amount above zero
AmountsArePositive(exps) == \A i \in 1..Len(exps) : exps[i].amount > 0

\* C30: in every reachable state every ledger entry has amount > 0, whether a
\* create request or an update request wrote it or a sweep generated it from
\* a pattern: in the ledger as it is, as a sweep at any now leaves it, and as
\* a restart reads it back from the file.
C30_AmountsArePositive ==
    /\ AmountsArePositive(expenses)
    /\ \A now \in NowSet :
           /\ AmountsArePositive(Swept(now).expenses)
           /\ AmountsArePositive(Restarted(now).expenses)

\* a ledger with an entry a request created, one an update has rewritten with
\* another amount, and one a sweep generated from an updated pattern
C30_Witness ==
    /\ \E i \in 1..Len(expenses) :
           expenses[i].recurring_pattern_id = NoPattern /\ expenses[i].amount = 10
    /\ \E i \in 1..Len(expenses) :
           /\ expenses[i].recurring_pattern_id = NoPattern
           /\ expenses[i].amount = 20
           /\ expenses[i].date = 20240207
    /\ \E i \in 1..Len(expenses) :
           expenses[i].recurring_pattern_id # NoPattern /\ expenses[i].amount = 20

\* the day a sweep stops on: now, or the end date when that comes first
DueLimit(p, now) ==
    IF p.end_date # NoDate /\ p.end_date < now THEN p.end_date ELSE now

\* the first occurrence of p, from its cursor on, that lies after limit
FirstOccurrenceAfter(p, limit) ==
    LET c == p.next_run_date
        later == {MonthlyTarget(c, DayOf(p.start_date), k) : k \in 1..(6 - MonthOf(c))}
    IN  IF c > limit THEN c
        ELSE IF p.frequency = "weekly" THEN FirstWeeklyAfter(c, limit)
        ELSE CHOOSE d \in later : d > limit /\ \A e \in later : e > limit => d <= e

\* the occurrences of p from its cursor to limit that have no entry in exps
MissingOccurrences(exps, p, limit) ==
    {d \in SeriesFromCursor(p, limit) : EntriesFor(exps, p.id, d) = {}}

\* the entries of exps, from position first on, that carry the pattern id
CreatedFor(exps, first, patternID) ==
    {k \in first..Len(exps) : exps[k].recurring_pattern_id = patternID}

C32_ExpenseIsFirstOccurrence ==
    [][\A a \in RecurringAmounts, d \in CreateDates, f \in RecurringFrequencies,
          ed \in EndDates, id \in PatternIds, now \in RecurringNows :
           ( /\ FreshPatternId(id)
             /\ ~recurringRefused(a, f, IF d = NoDate THEN now ELSE d, ed)
             /\ CreateExpenseWithRecurring(a, "Food ", d, TRUE, f, ed, id, now) ) =>
               LET e == expenses'[Len(expenses')]
                   p == recurringPatterns'[Len(recurringPatterns')]
                   r == sweepRecurringLocked(expenses', recurringPatterns', nextExpenseId', now)
               IN  /\ Len(expenses') = Len(expenses) + 1
                   /\ Len(recurringPatterns') = Len(recurringPatterns) + 1
                   /\ \A k \in 1..Len(expenses) : expenses'[k] = expenses[k]
                   /\ p.id = id
                   /\ e.recurring_pattern_id = p.id
                   /\ p.start_date = e.date /\ p.next_run_date = e.date
                   /\ p.active
                   /\ Cardinality(EntriesFor(r.expenses, p.id, p.start_date)) = 1
                   /\ e.date >= now =>
                          Cardinality({k \in 1..Len(r.expenses) :
                                          r.expenses[k].recurring_pattern_id = p.id}) = 1
                   /\ (e.date >= now /\ recurringPatterns = <<>>) => r.expenses = expenses'
                   /\ (e.date >= now /\ recurringPatterns = <<>> /\ expenses = <<>>) =>
                          Len(r.expenses) = 1]_vars

\* the ledger after such a create and a sweep on the same day: the one expense
\* that was ever created, tied to the pattern and dated on its start date, and
\* the cursor of the pattern moved on by the sweep
C32_Witness ==
    /\ Len(expenses) = 1 /\ Len(recurringPatterns) = 1
    /\ nextExpenseId = 2
    /\ expenses[1].recurring_pattern_id = recurringPatterns[1].id
    /\ expenses[1].date = recurringPatterns[1].start_date
    /\ recurringPatterns[1].next_run_date > recurringPatterns[1].start_date

\* the entries of exps that carry a pattern id, as pattern id, day and the
\* number of entries of that pattern on that day
PatternEntries(exps) ==
    {<<exps[k].recurring_pattern_id, exps[k].date,
       Cardinality(EntriesFor(exps, exps[k].recurring_pattern_id, exps[k].date))>> :
         k \in {j \in 1..Len(exps) : exps[j].recurring_pattern_id # NoPattern}}

\* the store a sweep at t2 leaves when it follows a sweep at t1
SweptTwice(t1, t2) ==
    LET first == Swept(t1)
    IN  generateDueRecurringLocked(first.expenses, first.recurringPatterns, first.nextId, t2)

\* C33: sweeps compose by the latest date: a sweep at t1 followed by a sweep
\* at t2, in either order of the two days, leaves the same entries per
\* pattern and day, and the same patterns (cursor and active flag included),
\* as one sweep at the later of the two; and a sweep at a now on or before
\* that of the sweep before it changes nothing.
C33_SweepsComposeByLatest ==
    \A t1, t2 \in NowSet :
        LET latest == IF t1 < t2 THEN t2 ELSE t1
            both == SweptTwice(t1, t2)
            single == Swept(latest)
        IN  /\ PatternEntries(both.expenses) = PatternEntries(single.expenses)
            /\ Len(both.expenses) = Len(single.expenses)
            /\ both.recurringPatterns = single.recurringPatterns
            /\ t2 <= t1 =>
                   /\ both.expenses = Swept(t1).expenses
                   /\ both.recurringPatterns = Swept(t1).recurringPatterns

\* two active patterns for each of which a sweep at 14 February creates
\* entries and a sweep at 31 March that follows creates more: the two sweeps
\* leave the entries in another order than the single sweep does
C33_Witness ==
    /\ Len(recurringPatterns) = 2
    /\ \A i \in 1..2 :
           LET id == recurringPatterns[i].id
               first == Swept(20240214)
               both == SweptTwice(20240214, 20240331)
           IN  /\ recurringPatterns[i].active
               /\ DatesFrom(first.expenses, Len(expenses) + 1, id) # {}
               /\ DatesFrom(both.expenses, Len(first.expenses) + 1, id) # {}
    /\ SweptTwice(20240214, 20240331).expenses # Swept(20240331).expenses

\* goroutine g holds s.mu, for writing or for reading
HoldsLock(g) == mu.writer = g \/ g \in mu.readers

\* goroutine g is in s.mu.Lock() or s.mu.RLock() and has not got the lock
WaitsForLock(g) == calls[g].at \in {"wantLock", "wantRLock"}

\* C34: no call of the store blocks forever: in every interleaving of calls
\* that write, sweep and read (a read that sweeps takes the exclusive lock for
\* its sweep, releases it, and then takes the shared lock), no goroutine
\* asks for s.mu while it holds it, and every call that was made returns.
C34_NoCallBlocksForever ==
    /\ [](\A g \in Goroutines : WaitsForLock(g) => ~HoldsLock(g))
    /\ \A g \in Goroutines : (calls[g].at # "idle") ~> (calls[g].at = "idle")

\* a read that has swept, generated entries and released the exclusive lock
\* waits for the shared lock while the other goroutine holds s.mu for writing
C34_Witness ==
    \E g, h \in Goroutines :
        /\ calls[g].at = "wantRLock" /\ calls[g].op = "list"
        /\ mu.writer = h /\ h # g
        /\ Len(expenses) = 3

\* the days the cursor of the pattern at index i is on at the head of each
\* iteration of the inner loop of generateDueRecurringLocked, in order
RECURSIVE dueLoopCursors(_, _, _)
dueLoopCursors(st, i, now) ==
    IF st.recurringPatterns[i].next_run_date > now THEN <<>>
    ELSE LET r == dueIteration(st, i, now)
         IN  <<st.recurringPatterns[i].next_run_date>> \o
                 (IF r.break THEN <<>> ELSE dueLoopCursors(r.st, i, now))

\* the days next is on at the head of each iteration of the loop of
\* UpcomingRecurring over one pattern, in order
RECURSIVE upcomingWalkDays(_, _, _)
upcomingWalkDays(pattern, next, windowEnd) ==
    IF next > windowEnd THEN <<>>
    ELSE IF pastEndDate(pattern, next) THEN <<next>>
    ELSE LET advanced == advanceRecurringDate(pattern.frequency, DayOf(pattern.start_date), next)
         IN  <<next>> \o (IF advanced.err THEN <<>>
                          ELSE upcomingWalkDays(pattern, advanced.date, windowEnd))

\* each day of the sequence is later than the one before it
StrictlyAscending(days) ==
    \A k \in 1..(Len(days) - 1) : days[k] < days[k + 1]

\* the store as the sweep finds it
Unswept == [expenses |-> expenses, recurringPatterns |-> recurringPatterns,
            nextId |-> nextExpenseId, changed |-> FALSE]

\* C35: the sweep ends, for every pattern and every now: from one iteration
\* of its loop to the next the cursor of the pattern moves to a later day (or
\* the loop is left), so a pattern takes no more iterations than it has
\* occurrences from its cursor to now; and the same holds for the walk of the
\* projector from the cursor to the end of its window.
C35_SweepTerminates ==
    \A now \in NowSet : \A i \in 1..Len(recurringPatterns) :
        LET p == recurringPatterns[i]
            cursors == dueLoopCursors(Unswept, i, now)
        IN  p.next_run_date # NoDate =>
                /\ StrictlyAscending(cursors)
                /\ Len(cursors) <= Cardinality(SeriesFromCursor(p, now))
                /\ \A days \in HorizonDays :
                       LET windowEnd == AddDays(now, upcomingDays(days))
                           walked == upcomingWalkDays(p, p.next_run_date, windowEnd)
                       IN  /\ StrictlyAscending(walked)
                           /\ Len(walked) <= Cardinality(SeriesFromCursor(p, windowEnd))

\* a pattern whose loop takes eight iterations in a sweep at 31 March, and
\* for which the walk of the projector takes three or more
C35_Witness ==
    \E i \in 1..Len(recurringPatterns) :
        LET p == recurringPatterns[i]
        IN  /\ p.active
            /\ p.next_run_date # NoDate
            /\ Len(dueLoopCursors(Unswept, i, 20240331)) = 8
            /\ Len(upcomingWalkDays(p, p.next_run_date, AddDays(20240214, 14))) >= 3

\* C36: a sweep creates no ledger entry for a pattern whose stored frequency
\* is neither weekly nor monthly, also when the pattern is active and its
\* cursor is due: the sweep of the store that loads the data file appends no
\* entry of such a pattern of the file.
C36_NoEntryForUnsupportedFrequency ==
    \A now \in NowSet :
        LET loaded == load(file)
            r == Restarted(now)
        IN  \A i \in 1..Len(file.recurring_patterns) :
                ~SupportedFrequency(file.recurring_patterns[i].frequency) =>
                    DatesFrom(r.expenses, Len(loaded.expenses) + 1,
                              file.recurring_patterns[i].id) = {}


\* the pairs of pattern id and day of the entries of exps from index first on
\* that are dated on or after now
CreatedPairs(exps, first, now) ==
    {<<exps[k].recurring_pattern_id, exps[k].date>> :
         k \in {j \in first..Len(exps) : exps[j].date >= now}}

\* the pairs of pattern id and day of a list of upcoming occurrences
UpcomingPairs(list) ==
    {<<list[k].pattern_id, list[k].date>> : k \in 1..Len(list)}

\* the store a sweep at the end of the window of days from now leaves when it
\* follows a sweep at now
SweptAtWindowEnd(days, now) ==
    LET first == Swept(now)
    IN  generateDueRecurringLocked(first.expenses, first.recurringPatterns, first.nextId,
                                   AddDays(now, upcomingDays(days)))

\* C37 as stated: the projector and the engine agree: on the state a sweep at
\* now leaves, the pairs of pattern and date UpcomingRecurring(days, now)
\* returns are the pairs of the entries a sweep at now plus the horizon
\* creates that are dated on or after now, each pair once on both sides; the
\* horizon is that of the projector, 30 days for days = 0.
C37_ProjectorAgreesWithEngine ==
    \A days \in HorizonDays : \A now \in NowSet :
        LET first == Swept(now)
            list == upcomingLocked(first.recurringPatterns, days, now)
            later == SweptAtWindowEnd(days, now)
            created == CreatedPairs(later.expenses, Len(first.expenses) + 1, now)
        IN  /\ UpcomingPairs(list) = created
            /\ Len(list) = Cardinality(created)

\* C37, amended: on the state a sweep at now leaves, the pairs of pattern and
\* date UpcomingRecurring(days, now) returns, less those for which the ledger
\* already holds an entry of that pattern on that day, are the pairs of the
\* entries a sweep at now plus the horizon creates; the projector returns
\* each pair once, the sweep creates one entry for each of its pairs and
\* none for a pair the ledger holds.
C37_ProjectorAgreesUpToExistingEntries ==
    \A days \in HorizonDays : \A now \in NowSet :
        LET first == Swept(now)
            list == upcomingLocked(first.recurringPatterns, days, now)
            later == SweptAtWindowEnd(days, now)
            created == CreatedPairs(later.expenses, Len(first.expenses) + 1, now)
            existing == CreatedPairs(first.expenses, 1, now)
        IN  /\ UpcomingPairs(list) \ existing = created
            /\ Len(list) = Cardinality(UpcomingPairs(list))
            /\ Len(later.expenses) - Len(first.expenses) = Cardinality(created)

\* a preview of two occurrences or more of which the ledger already holds one
\* and the sweep at the end of the window creates another
C37_Witness ==
    \E days \in HorizonDays : \E now \in NowSet :
        LET first == Swept(now)
            list == upcomingLocked(first.recurringPatterns, days, now)
            later == SweptAtWindowEnd(days, now)
            created == CreatedPairs(later.expenses, Len(first.expenses) + 1, now)
            existing == CreatedPairs(first.expenses, 1, now)
        IN  /\ UpcomingPairs(list) \cap existing # {}
            /\ created # {}
            /\ created \subseteq UpcomingPairs(list)

\* C38: whenever the store runs and none of its operations is in progress,
\* the data file decodes, through load, to exactly the ledger and the
\* patterns of the memory.
C38_FileDecodesToMemory ==
    (running /\ mu = Unlocked) =>
        /\ load(file).expenses = expenses
        /\ load(file).recurringPatterns = recurringPatterns

\* the pattern of that id as the store holds it
StoredPattern(pats, id) ==
    pats[CHOOSE i \in 1..Len(pats) : pats[i].id = id]

\* C39: the pattern CreateRecurring and UpdateRecurring return is the pattern
\* of that id as the store holds it when the operation has finished, with the
\* next_run_date and the active flag the sweep of the operation has left.
C39_ReturnedPatternIsStored ==
    [][\A id \in PatternIds, a \in PatternAmounts, f \in Frequencies, sd \in StartDates,
          ed \in EndDates, act \in BOOLEAN, now \in NowSet :
           /\ ( /\ ~validateRecurringInput(a, f, sd, ed)
                /\ FreshPatternId(id)
                /\ CreateRecurring(id, a, f, sd, ed, act, now) )
              => StoredPattern(recurringPatterns', id) = createdPattern(id, a, f, sd, ed, act)
           /\ ( /\ ~validateRecurringInput(a, f, sd, ed)
                /\ ~FreshPatternId(id)
                /\ UpdateRecurring(id, a, f, sd, ed, act, now) )
              => StoredPattern(recurringPatterns', id) =
                     updatedPattern(StoredPattern(recurringPatterns, id), a, f, sd, ed, act)]_vars

\* the entries of the ledger after a step that the ledger before it did not
\* hold: the engine and Create give every new entry an id of its own
NewEntries ==
    {k \in 1..Len(expenses') : expenses'[k].id >= nextExpenseId}

\* C40: a generated entry the user deletes stays deleted: no step of the
\* store (sweep, read, restart, pattern update, edit of the ledger) moves the
\* cursor of a pattern back, and no step creates an entry of a pattern on a
\* day before the cursor the pattern had when the step began; so once the
\* cursor has passed the day of an entry, no entry of that pattern and day is
\* created again, whether the entry is still in the ledger or not.
C40_DeletedEntryStaysDeleted ==
    [][\A i \in 1..Len(recurringPatterns) :
           LET p == recurringPatterns[i]
           IN  /\ \E j \in 1..Len(recurringPatterns') :
                      /\ recurringPatterns'[j].id = p.id
                      /\ recurringPatterns'[j].next_run_date >= p.next_run_date
               /\ \A k \in NewEntries :
                      expenses'[k].recurring_pattern_id = p.id =>
                          expenses'[k].date >= p.next_run_date]_vars

\* a weekly pattern whose cursor has passed two of its entries and the day a
\* week after the earlier one, on which the ledger holds no entry of the
\* pattern, in a ledger that has lost an entry: the entry of that day was
\* deleted, and the sweeps, restarts and updates since have left the day empty
C40_Witness ==
    \E i \in 1..Len(recurringPatterns) : \E k1, k2 \in 1..Len(expenses) :
        LET p == recurringPatterns[i]
            day == AddWeek(expenses[k1].date)
        IN  /\ p.frequency = "weekly"
            /\ expenses[k1].recurring_pattern_id = p.id
            /\ expenses[k2].recurring_pattern_id = p.id
            /\ expenses[k1].date >= p.start_date
            /\ expenses[k2].date > day
            /\ p.next_run_date > expenses[k2].date
            /\ ~hasOccurrenceLocked(expenses, p.id, day)
            /\ Len(expenses) + 1 < nextExpenseId

\* the same on a disk that can fail, of the cursor the data file holds: no
\* step moves the cursor of a pattern of the file back, in the file or below
\* it in the memory of a running store, and no step creates an entry of the
\* pattern on a day before that cursor; a delete that succeeds writes the
\* cursor of the memory with the ledger
PersistedCursorHolds ==
    [][\A i \in 1..Len(load(file).recurringPatterns) :
           LET p == load(file).recurringPatterns[i]
           IN  /\ \E j \in 1..Len(load(file').recurringPatterns) :
                      /\ load(file').recurringPatterns[j].id = p.id
                      /\ load(file').recurringPatterns[j].next_run_date >= p.next_run_date
               /\ running' =>
                      \E j \in 1..Len(recurringPatterns') :
                          /\ recurringPatterns'[j].id = p.id
                          /\ recurringPatterns'[j].next_run_date >= p.next_run_date
               /\ \A k \in NewEntries :
                      expenses'[k].recurring_pattern_id = p.id =>
                          expenses'[k].date >= p.next_run_date]_vars

====
